---- MODULE Spec2Model ----
(***************************************************************************)
(* Verifiable-credential lifecycle of vc-ecdsa-crypto: canonicalization,   *)
(* raw / Ethereum-prefixed signing, issuance, verification and conversion. *)
(*                                                                         *)
(* Text is a sequence of one-character strings, so that concatenation,     *)
(* escaping and key sorting are computed as the code computes them.        *)
(* A JavaScript value is a record [t, v]: t is the type tag, v the payload.*)
(* The secp256k1 / keccak primitives of ethers are modelled symbolically:  *)
(* a digest is the term keccak(text), a signature the term (signer,        *)
(* signed digest), and recovery yields the signer's key only for the       *)
(* digest that was signed.                                                 *)
(***************************************************************************)
EXTENDS Integers, Sequences, FiniteSets, TLC

VARIABLES
    x, y, cx, cy,          \* canonicalizer harness: two values and their canonical texts
    now,                   \* the wall clock (abstract ticks)
    vc,                    \* the credential in hand (a JavaScript value)
    issued,                \* what issuance recorded: signer, mode, hash that was signed
    onChainVC,             \* the result of convertToOnChain, with what it recorded
    result,                \* the outcome of the last verifier call, with its inputs
    sig,                   \* crypto harness: last sign / verify on the provider
    tasks,                 \* invocations in flight: each suspended at its await, or settled
    auth                   \* tokens and challenges of OffChainService, and their checks

vars == <<x, y, cx, cy, now, vc, issued, onChainVC, result, sig, tasks, auth>>

(***************************************************************************)
(* Characters and text                                                     *)
(***************************************************************************)

\* The characters the model's texts use, in UTF-16 code unit order.
AsciiOrder ==
    << "\"", "#", ",", "-", ".", "/", "0", "1", "2", "3", "4", "5", "6",
       "7", "8", "9", ":", "@", "A", "B", "C", "D", "E", "F", "G", "H",
       "I", "J", "K", "L", "M", "N", "O", "P", "Q", "R", "S", "T", "U",
       "V", "W", "X", "Y", "Z", "[", "\\", "]", "_", "a", "b", "c", "d",
       "e", "f", "g", "h", "i", "j", "k", "l", "m", "n", "o", "p", "q",
       "r", "s", "t", "u", "v", "w", "x", "y", "z", "{", "}" >>

Alphabet == { AsciiOrder[i] : i \in 1..Len(AsciiOrder) }

CharCode == [ c \in Alphabet |-> CHOOSE i \in 1..Len(AsciiOrder) : AsciiOrder[i] = c ]

\* String comparison of Array.prototype.sort() without a comparator:
\* code unit by code unit, a proper prefix first.
RECURSIVE StrLess(_, _)
StrLess(a, b) ==
    IF b = << >> THEN FALSE
    ELSE IF a = << >> THEN TRUE
    ELSE IF Head(a) = Head(b) THEN StrLess(Tail(a), Tail(b))
    ELSE CharCode[Head(a)] < CharCode[Head(b)]

RECURSIVE Join(_, _)
Join(parts, sep) ==
    IF parts = << >> THEN << >>
    ELSE IF Len(parts) = 1 THEN parts[1]
    ELSE parts[1] \o sep \o Join(Tail(parts), sep)

\* s.includes(needle) of String.prototype
StrIncludes(s, needle) ==
    \/ needle = << >>
    \/ \E i \in 1..(Len(s) - Len(needle) + 1) :
          s[i] = needle[1] /\ SubSeq(s, i, i + Len(needle) - 1) = needle

(***************************************************************************)
(* JavaScript values                                                       *)
(***************************************************************************)

Null      == [t |-> "null", v |-> 0]
Undefined == [t |-> "undefined", v |-> 0]
Bool(b)   == [t |-> "boolean", v |-> b]
Num(n)    == [t |-> "number", v |-> n]
Str(s)    == [t |-> "string", v |-> s]
Arr(a)    == [t |-> "array", v |-> a]
\* An object is its own properties in insertion order, keys distinct.
Obj(p)    == [t |-> "object", v |-> p]
P(k, val) == [k |-> k, v |-> val]

IsObj(val) == val.t = "object"
IsArr(val) == val.t = "array"

KeysOf(o) == [ i \in 1..Len(o.v) |-> o.v[i].k ]
HasKey(o, k) == IsObj(o) /\ \E i \in 1..Len(o.v) : o.v[i].k = k

\* o[k] for a value that is not null or undefined (a property a primitive
\* or an array does not have reads as undefined).
Get(o, k) ==
    IF HasKey(o, k)
    THEN o.v[CHOOSE i \in 1..Len(o.v) : o.v[i].k = k].v
    ELSE Undefined

\* ToBoolean: what `!v` and `v ? a : b` test.
Truthy(val) ==
    CASE val.t = "null" -> FALSE
      [] val.t = "undefined" -> FALSE
      [] val.t = "boolean" -> val.v
      [] val.t = "number" -> val.v # 0
      [] val.t = "string" -> val.v # << >>
      [] OTHER -> TRUE

\* const { proof, ...rest } = o  : the own enumerable properties but `key`,
\* order kept. A number or boolean has none; a string or an array has its
\* indices (named "0", "1", ... up to "9" here).
Without(o, key) ==
    CASE o.t = "object" -> Obj(SelectSeq(o.v, LAMBDA p : p.k # key))
      [] o.t = "array"  -> Obj([ i \in 1..Len(o.v) |-> [k |-> <<AsciiOrder[6 + i]>>, v |-> o.v[i]] ])
      [] o.t = "string" -> Obj([ i \in 1..Len(o.v) |->
                                   [k |-> <<AsciiOrder[6 + i]>>, v |-> [t |-> "string", v |-> <<o.v[i]>>]] ])
      [] OTHER          -> Obj(<< >>)

\* { ...o, key: val } for an o that has no own property `key`.
With(o, key, val) == Obj(Append(o.v, P(key, val)))

\* o.key = val : replaces in place, or appends a new property.
Assign(o, key, val) ==
    IF HasKey(o, key)
    THEN Obj([ i \in 1..Len(o.v) |-> IF o.v[i].k = key THEN P(key, val) ELSE o.v[i] ])
    ELSE With(o, key, val)

(***************************************************************************)
(* ethers primitives, symbolically                                         *)
(***************************************************************************)

\* The identities (key pairs) of the model
Identities == {1, 2}

\* Hex strings. Key material carries the letter case of its hex digits:
\* computePublicKey gives lower case, wallet.address the mixed-case checksum.
PrivateKeyOf(i) == [t |-> "priv", v |-> [owner |-> i, cs |-> "lower"]]
PublicKeyOf(i)  == [t |-> "pub",  v |-> [owner |-> i, cs |-> "lower"]]
AddressOf(i)    == [t |-> "addr", v |-> [owner |-> i, cs |-> "mixed"]]

\* A string that is no key, no digest and no signature.
Garbage == [t |-> "garbage", v |-> 0]

\* String.prototype.toLowerCase on a hex string
toLowerCase(h) ==
    IF h.t \in {"priv", "pub", "addr"} THEN [h EXCEPT !.v.cs = "lower"] ELSE h

\* Owner 0 is a curve point whose private key nobody holds: what signature
\* recovery yields for a digest the signature was not made for.
UnknownKey == [t |-> "pub", v |-> [owner |-> 0, cs |-> "lower"]]

IsPrivateKey(k) == k.t = "priv" /\ k.v.owner \in Identities
IsDigest(d)     == d.t \in {"keccak", "ethmsg"}
IsSignature(s)  == s.t = "sig"

\* ethers.keccak256(ethers.toUtf8Bytes(data))
keccak256(data) == [t |-> "keccak", v |-> data]

\* ethers.hashMessage: keccak256("\x19Ethereum Signed Message:\n32" ++ digest)
hashMessage(digest) == [t |-> "ethmsg", v |-> digest]

\* SigningKey.sign(digest): deterministic (RFC 6979) signature term
SigningKey_sign(digest, i) == [t |-> "sig", v |-> [digest |-> digest, signer |-> i]]

\* SigningKey.recoverPublicKey(digest, signature), for a well-formed signature
recoverPublicKey(digest, signature) ==
    IF signature.v.digest = digest
    THEN PublicKeyOf(signature.v.signer)
    ELSE UnknownKey

\* ethers.computeAddress(publicKey)
computeAddress(pub) == [t |-> "addr", v |-> [owner |-> pub.v.owner, cs |-> "mixed"]]

\* ethers.verifyMessage(message, signature) = recoverAddress(hashMessage(message), signature)
verifyMessage(message, signature) ==
    computeAddress(recoverPublicKey(hashMessage(message), signature))

\* A call either returns a value or throws.
Return(val) == [ok |-> TRUE, v |-> val]
Throw(msg)  == [ok |-> FALSE, v |-> msg]

(***************************************************************************)
(* ECDSACryptoService                                                      *)
(***************************************************************************)

\* sign(data, privateKey, { ethereumPrefix }): new ethers.Wallet and getBytes
\* throw on a malformed key or on data that is no hex string; the catch
\* rethrows as "ECDSA signing failed".
signMutant(data, privateKey, ethereumPrefix) ==
    IF ~IsPrivateKey(privateKey) \/ ~IsDigest(data)
    THEN Throw("ECDSA signing failed")
    ELSE Return(SigningKey_sign(data, privateKey.v.owner))
sign(data, privateKey, ethereumPrefix) ==
    IF ~IsPrivateKey(privateKey) \/ ~IsDigest(data)
    THEN Throw("ECDSA signing failed")
    ELSE IF ethereumPrefix
         THEN Return(SigningKey_sign(hashMessage(data), privateKey.v.owner))
         ELSE Return(SigningKey_sign(data, privateKey.v.owner))

\* verify(data, signature, publicKeyOrAddress, { ethereumPrefix }): every
\* throw inside (data or signature malformed, key material not a string)
\* is caught and answered false.
verifyMutant(data, signature, publicKeyOrAddress, ethereumPrefix) ==
    IsDigest(data) /\ IsSignature(signature) /\ publicKeyOrAddress.t \in {"pub", "addr"}
verify(data, signature, publicKeyOrAddress, ethereumPrefix) ==
    IF ~IsDigest(data) \/ ~IsSignature(signature) THEN FALSE
    ELSE IF publicKeyOrAddress.t \in {"undefined", "null"} THEN FALSE
    ELSE IF ethereumPrefix
         THEN toLowerCase(verifyMessage(data, signature)) = toLowerCase(publicKeyOrAddress)
         ELSE toLowerCase(recoverPublicKey(data, signature)) = toLowerCase(publicKeyOrAddress)

\* hash(data)
hash(data) == keccak256(data)

(***************************************************************************)
(* Canonicalization                                                        *)
(***************************************************************************)

DigitChars == <<"0", "1", "2", "3", "4", "5", "6", "7", "8", "9">>

\* Decimal digits of a natural number
RECURSIVE NatText(_)
NatText(n) ==
    IF n < 10 THEN <<DigitChars[n + 1]>>
    ELSE NatText(n \div 10) \o <<DigitChars[(n % 10) + 1]>>

\* The text of a hex string: a fixed injective rendering of the term.
RECURSIVE HexText(_)
HexText(h) ==
    CASE h.t = "keccak"  -> <<"0", "x", "c">> \o h.v \o <<"_">>
      [] h.t = "ethmsg"  -> <<"0", "x", "e">> \o HexText(h.v)
      [] h.t = "sig"     -> <<"0", "x", "5">> \o NatText(h.v.signer) \o HexText(h.v.digest)
      [] h.t = "garbage" -> <<"z", "z">>
      [] OTHER           -> <<"0", "x", IF h.t = "priv" THEN "d" ELSE IF h.t = "pub" THEN "4" ELSE "a">>
                            \o NatText(h.v.owner) \o (IF h.v.cs = "lower" THEN <<"f">> ELSE <<"F">>)

IsHex(val) == val.t \in {"keccak", "ethmsg", "sig", "garbage", "priv", "pub", "addr"}

\* JSON.stringify of a string: quoted, with quote and backslash escaped
RECURSIVE Escape(_)
Escape(s) ==
    IF s = << >> THEN << >>
    ELSE IF Len(s) = 1
         THEN (IF s[1] \in {"\"", "\\"} THEN <<"\\", s[1]>> ELSE s)
         ELSE LET half == Len(s) \div 2
              IN  Escape(SubSeq(s, 1, half)) \o Escape(SubSeq(s, half + 1, Len(s)))

\* JSON.stringify of a value that is not an object (typeof obj !== "object")
JSONstringify(val) ==
    CASE val.t = "string"  -> <<"\"">> \o Escape(val.v) \o <<"\"">>
      [] val.t = "number"  -> IF val.v < 0 THEN <<"-">> \o NatText(-val.v) ELSE NatText(val.v)
      [] val.t = "boolean" -> IF val.v THEN <<"t", "r", "u", "e">> ELSE <<"f", "a", "l", "s", "e">>
      [] OTHER             -> <<"\"">> \o Escape(HexText(val)) \o <<"\"">>

\* Array.prototype.sort() on strings (insertion into a sorted sequence)
RECURSIVE InsertSorted(_, _)
InsertSorted(k, sorted) ==
    IF sorted = << >> THEN <<k>>
    ELSE IF StrLess(k, Head(sorted)) THEN <<k>> \o sorted
    ELSE <<Head(sorted)>> \o InsertSorted(k, Tail(sorted))

sortMutant(keys) == keys
RECURSIVE sort(_)
sort(keys) ==
    IF keys = << >> THEN << >>
    ELSE InsertSorted(Head(keys), sort(Tail(keys)))

\* ECDSACryptoService.canonicalize
RECURSIVE canonicalizeMutant(_)
canonicalizeMutant(obj) ==
    CASE obj.t = "null"      -> <<"n", "u", "l", "l">>
      [] obj.t = "undefined" -> <<"u", "n", "d", "e", "f", "i", "n", "e", "d">>
      [] obj.t = "array"     ->
            <<"[">> \o Join([ i \in 1..Len(obj.v) |-> canonicalizeMutant(obj.v[i]) ], <<",">>) \o <<"]">>
      [] obj.t = "object"    ->
            LET keys   == SelectSeq(sort(KeysOf(obj)), LAMBDA key : Get(obj, key) \notin {Undefined, Null})
                sorted == [ i \in 1..Len(keys) |->
                              <<"\"">> \o keys[i] \o <<"\"", ":">> \o canonicalizeMutant(Get(obj, keys[i])) ]
            IN  <<"{">> \o Join(sorted, <<",">>) \o <<"}">>
      [] obj.t \in {"date", "invaliddate"} -> <<"{", "}">>
      [] OTHER               -> JSONstringify(obj)
RECURSIVE canonicalize(_)
canonicalize(obj) ==
    CASE obj.t = "null"      -> <<"n", "u", "l", "l">>
      [] obj.t = "undefined" -> <<"u", "n", "d", "e", "f", "i", "n", "e", "d">>
      [] obj.t = "array"     ->
            <<"[">> \o Join([ i \in 1..Len(obj.v) |-> canonicalize(obj.v[i]) ], <<",">>) \o <<"]">>
      [] obj.t = "object"    ->
            LET keys   == SelectSeq(sort(KeysOf(obj)), LAMBDA key : Get(obj, key) # Undefined)
                sorted == [ i \in 1..Len(keys) |->
                              <<"\"">> \o keys[i] \o <<"\"", ":">> \o canonicalize(Get(obj, keys[i])) ]
            IN  <<"{">> \o Join(sorted, <<",">>) \o <<"}">>
      [] obj.t \in {"date", "invaliddate"} -> <<"{", "}">>
      [] OTHER               -> JSONstringify(obj)

\* ECDSACryptoService.createCanonicalHash
createCanonicalHash(obj) == hash(canonicalize(obj))

\* VCIssuer.canonicalize: the issuer's private copy of the algorithm
RECURSIVE VCIssuer_canonicalize(_)
VCIssuer_canonicalize(obj) ==
    CASE obj.t = "null"      -> <<"n", "u", "l", "l">>
      [] obj.t = "undefined" -> <<"u", "n", "d", "e", "f", "i", "n", "e", "d">>
      [] obj.t = "array"     ->
            <<"[">> \o Join([ i \in 1..Len(obj.v) |-> VCIssuer_canonicalize(obj.v[i]) ], <<",">>) \o <<"]">>
      [] obj.t = "object"    ->
            LET keys   == SelectSeq(sort(KeysOf(obj)), LAMBDA key : Get(obj, key) # Undefined)
                sorted == [ i \in 1..Len(keys) |->
                              <<"\"">> \o keys[i] \o <<"\"", ":">> \o VCIssuer_canonicalize(Get(obj, keys[i])) ]
            IN  <<"{">> \o Join(sorted, <<",">>) \o <<"}">>
      [] obj.t \in {"date", "invaliddate"} -> <<"{", "}">>
      [] OTHER               -> JSONstringify(obj)

\* VCIssuer.createCanonicalHash
VCIssuer_createCanonicalHash(credential) == hash(VCIssuer_canonicalize(credential))

(***************************************************************************)
(* Property names and string constants of the credential format            *)
(***************************************************************************)

K_context == <<"@", "c", "o", "n", "t", "e", "x", "t">>
K_type == <<"t", "y", "p", "e">>
K_issuer == <<"i", "s", "s", "u", "e", "r">>
K_validFrom == <<"v", "a", "l", "i", "d", "F", "r", "o", "m">>
K_validUntil == <<"v", "a", "l", "i", "d", "U", "n", "t", "i", "l">>
K_credentialSubject == <<"c", "r", "e", "d", "e", "n", "t", "i", "a", "l", "S", "u", "b", "j", "e", "c", "t">>
K_id == <<"i", "d">>
K_proof == <<"p", "r", "o", "o", "f">>
K_credentialStatus == <<"c", "r", "e", "d", "e", "n", "t", "i", "a", "l", "S", "t", "a", "t", "u", "s">>
K_credentialSchema == <<"c", "r", "e", "d", "e", "n", "t", "i", "a", "l", "S", "c", "h", "e", "m", "a">>
K_evidence == <<"e", "v", "i", "d", "e", "n", "c", "e">>
K_termsOfUse == <<"t", "e", "r", "m", "s", "O", "f", "U", "s", "e">>
K_created == <<"c", "r", "e", "a", "t", "e", "d">>
K_proofPurpose == <<"p", "r", "o", "o", "f", "P", "u", "r", "p", "o", "s", "e">>
K_verificationMethod == <<"v", "e", "r", "i", "f", "i", "c", "a", "t", "i", "o", "n", "M", "e", "t", "h", "o", "d">>
K_proofValue == <<"p", "r", "o", "o", "f", "V", "a", "l", "u", "e">>
W3C_VC_CONTEXT_V2 == <<"h", "t", "t", "p", "s", ":", "/", "/", "w", "w", "w", ".", "w", "3", ".", "o", "r", "g", "/", "n", "s", "/", "c", "r", "e", "d", "e", "n", "t", "i", "a", "l", "s", "/", "v", "2">>
T_VerifiableCredential == <<"V", "e", "r", "i", "f", "i", "a", "b", "l", "e", "C", "r", "e", "d", "e", "n", "t", "i", "a", "l">>
T_EcdsaSecp256k1RecoverySignature2020 == <<"E", "c", "d", "s", "a", "S", "e", "c", "p", "2", "5", "6", "k", "1", "R", "e", "c", "o", "v", "e", "r", "y", "S", "i", "g", "n", "a", "t", "u", "r", "e", "2", "0", "2", "0">>
T_EcdsaSecp256k1Signature2019 == <<"E", "c", "d", "s", "a", "S", "e", "c", "p", "2", "5", "6", "k", "1", "S", "i", "g", "n", "a", "t", "u", "r", "e", "2", "0", "1", "9">>
T_assertionMethod == <<"a", "s", "s", "e", "r", "t", "i", "o", "n", "M", "e", "t", "h", "o", "d">>
T_keys1 == <<"#", "k", "e", "y", "s", "-", "1">>
T_undefined == <<"u", "n", "d", "e", "f", "i", "n", "e", "d">>

(***************************************************************************)
(* Dates: the clock counts whole days; a Date is a time value or invalid   *)
(***************************************************************************)

\* Largest value of the clock
MaxTime == 3

\* A Date object is a JavaScript value too (typeof "object", truthy).
Date(n)     == [t |-> "date", v |-> n]
InvalidDate == [t |-> "invaliddate", v |-> 0]

\* d1 < d2 on Dates: numeric, false when either is NaN
DateLessMutant(d1, d2) == d1.t = "date" /\ d2.t = "date" /\ d1.v > d2.v
DateLess(d1, d2) == d1.t = "date" /\ d2.t = "date" /\ d1.v < d2.v

\* Date.prototype.toISOString
toISOString(d) == <<"T">> \o NatText(d.v) \o <<"Z">>

IsDigits(s) == s # << >> /\ \A i \in 1..Len(s) : s[i] \in { DigitChars[j] : j \in 1..10 }

RECURSIVE NatOf(_)
NatOf(s) ==
    IF s = << >> THEN 0
    ELSE 10 * NatOf(SubSeq(s, 1, Len(s) - 1)) + (CharCode[s[Len(s)]] - CharCode["0"])

\* new Date(value): a date-time string is parsed, a number is the time value
NewDate(val) ==
    CASE val.t = "number" -> Date(val.v)
      [] val.t = "string" ->
            IF Len(val.v) >= 3 /\ val.v[1] = "T" /\ val.v[Len(val.v)] = "Z"
               /\ IsDigits(SubSeq(val.v, 2, Len(val.v) - 1))
            THEN Date(NatOf(SubSeq(val.v, 2, Len(val.v) - 1)))
            ELSE InvalidDate
      [] OTHER -> InvalidDate

(***************************************************************************)
(* JSON.parse, for texts without white space between tokens and with the   *)
(* escapes \" \\ and \/ in strings                                         *)
(***************************************************************************)

CharAt(s, i) == IF i >= 1 /\ i <= Len(s) THEN s[i] ELSE ""

Parsed(val, next) == [ok |-> TRUE, v |-> val, next |-> next]
SyntaxError       == [ok |-> FALSE, v |-> Undefined, next |-> 0]

\* The number of backslashes that end just before position j
BackslashRun(s, j) ==
    j - (CHOOSE m \in 1..j : /\ \A k \in m..(j - 1) : s[k] = "\\"
                             /\ (m = 1 \/ s[m - 1] # "\\"))

\* Positions of the quotes after position i that are not escaped
ClosingQuotes(s, i) ==
    { j \in (i + 1)..Len(s) : s[j] = "\"" /\ BackslashRun(s, j) % 2 = 0 }

Least(S) == CHOOSE j \in S : \A k \in S : j <= k

\* The characters of a string literal with its escapes resolved
RECURSIVE Unescape(_)
Unescape(t) ==
    IF t = << >> THEN Return(<< >>)
    ELSE IF Head(t) # "\\"
         THEN LET rest == Unescape(Tail(t))
              IN  IF rest.ok THEN Return(<<Head(t)>> \o rest.v) ELSE rest
         ELSE IF Len(t) >= 2 /\ t[2] \in {"\"", "\\", "/"}
              THEN LET rest == Unescape(SubSeq(t, 3, Len(t)))
                   IN  IF rest.ok THEN Return(<<t[2]>> \o rest.v) ELSE rest
              ELSE Throw("SyntaxError")

\* A string literal whose opening quote is at position i
ParseString(s, i) ==
    IF CharAt(s, i) # "\"" \/ ClosingQuotes(s, i) = {} THEN SyntaxError
    ELSE LET j    == Least(ClosingQuotes(s, i))
             text == Unescape(SubSeq(s, i + 1, j - 1))
         IN  IF text.ok THEN Parsed(text.v, j + 1) ELSE SyntaxError

\* A number literal at position i: an optional minus sign and digits
ParseNumber(s, i) ==
    LET start  == IF CharAt(s, i) = "-" THEN i + 1 ELSE i
        stops  == { j \in start..(Len(s) + 1) : ~IsDigits(<<CharAt(s, j)>>) }
        end    == Least(stops)
    IN  IF end = start THEN SyntaxError
        ELSE LET n == NatOf(SubSeq(s, start, end - 1))
             IN  Parsed(Num(IF start = i THEN n ELSE 0 - n), end)

StartsWith(s, i, word) ==
    i >= 1 /\ i + Len(word) - 1 <= Len(s) /\ SubSeq(s, i, i + Len(word) - 1) = word

RECURSIVE ParseValue(_, _)
RECURSIVE ParseElements(_, _, _)
RECURSIVE ParseMembers(_, _, _)

\* The elements of a list from position i on, `acc` being those read so far
ParseElements(s, i, acc) ==
    LET el == ParseValue(s, i)
    IN  IF ~el.ok THEN SyntaxError
        ELSE IF CharAt(s, el.next) = "," THEN ParseElements(s, el.next + 1, Append(acc, el.v))
        ELSE IF CharAt(s, el.next) = "]" THEN Parsed(Arr(Append(acc, el.v)), el.next + 1)
        ELSE SyntaxError

\* The members of a record from position i on; a key met again keeps its
\* place and takes the later value
ParseMembers(s, i, acc) ==
    LET key == ParseString(s, i)
    IN  IF ~key.ok \/ CharAt(s, key.next) # ":" THEN SyntaxError
        ELSE LET val == ParseValue(s, key.next + 1)
             IN  IF ~val.ok THEN SyntaxError
                 ELSE IF CharAt(s, val.next) = ","
                      THEN ParseMembers(s, val.next + 1, Assign(acc, key.v, val.v))
                 ELSE IF CharAt(s, val.next) = "}"
                      THEN Parsed(Assign(acc, key.v, val.v), val.next + 1)
                 ELSE SyntaxError

ParseValue(s, i) ==
    CASE CharAt(s, i) = "{"  -> IF CharAt(s, i + 1) = "}" THEN Parsed(Obj(<< >>), i + 2)
                                ELSE ParseMembers(s, i + 1, Obj(<< >>))
      [] CharAt(s, i) = "["  -> IF CharAt(s, i + 1) = "]" THEN Parsed(Arr(<< >>), i + 2)
                                ELSE ParseElements(s, i + 1, << >>)
      [] CharAt(s, i) = "\"" -> LET str == ParseString(s, i)
                                IN  IF str.ok THEN Parsed(Str(str.v), str.next) ELSE SyntaxError
      [] StartsWith(s, i, <<"t", "r", "u", "e">>)      -> Parsed(Bool(TRUE), i + 4)
      [] StartsWith(s, i, <<"f", "a", "l", "s", "e">>) -> Parsed(Bool(FALSE), i + 5)
      [] StartsWith(s, i, <<"n", "u", "l", "l">>)      -> Parsed(Null, i + 4)
      [] CharAt(s, i) = "-" \/ IsDigits(<<CharAt(s, i)>>) -> ParseNumber(s, i)
      [] OTHER -> SyntaxError

\* JSON.parse(text): the value, or a SyntaxError thrown
JSONparse(text) ==
    LET r == ParseValue(text, 1)
    IN  IF r.ok /\ r.next = Len(text) + 1 THEN Return(r.v) ELSE Throw("SyntaxError")

(***************************************************************************)
(* OffChainService / OnChainService                                        *)
(***************************************************************************)

\* OffChainService.signData: RAW signature, no Ethereum prefix
signDataMutant(dataHash, privateKey) == sign(dataHash, privateKey, TRUE)
signData(dataHash, privateKey) == sign(dataHash, privateKey, FALSE)

\* OffChainService.verifySignature
verifySignature(dataHash, signature, publicKey) ==
    verify(dataHash, signature, publicKey, FALSE)

\* OnChainService.signForBlockchain: Ethereum-prefixed signature
signForBlockchainMutant(dataHash, privateKey) == sign(dataHash, privateKey, FALSE)
signForBlockchain(dataHash, privateKey) == sign(dataHash, privateKey, TRUE)

\* OnChainService.verifyBlockchainSignature
verifyBlockchainSignatureMutant(dataHash, signature, ethereumAddress) ==
    verify(dataHash, signature, ethereumAddress, FALSE)
verifyBlockchainSignature(dataHash, signature, ethereumAddress) ==
    verify(dataHash, signature, ethereumAddress, TRUE)

\* String.prototype.split(sep) for a separator of one character
RECURSIVE split(_, _)
split(s, sep) ==
    LET at == { i \in 1..Len(s) : s[i] = sep }
    IN  IF at = {} THEN <<s>>
        ELSE <<SubSeq(s, 1, Least(at) - 1)>> \o split(SubSeq(s, Least(at) + 1, Len(s)), sep)

\* Number values that are not integers of the clock
NaN == [t |-> "NaN", v |-> 0]

\* parseInt(s, 10): the longest prefix of digits, after an optional sign
parseInt(s) ==
    LET negative == s # << >> /\ s[1] = "-"
        body     == IF negative THEN Tail(s) ELSE s
        stops    == { i \in 1..Len(body) : ~IsDigits(<<body[i]>>) }
        digits   == IF stops = {} THEN body ELSE SubSeq(body, 1, Least(stops) - 1)
    IN  IF digits = << >> THEN NaN
        ELSE Num(IF negative THEN -NatOf(digits) ELSE NatOf(digits))

\* a > b on numbers: false when either is NaN
Greater(a, b) == a.t = "number" /\ b.t = "number" /\ a.v > b.v

\* ethers.hexlify(ethers.randomBytes(n)): the text of the r-th random value
hexlify(r) == <<"0", "x">> \o NatText(r)

T_access == <<"a", "c", "c", "e", "s", "s">>

\* OffChainService.createChallenge, drawing the random value r
createChallenge(r) == hexlify(r)

\* OffChainService.verifyChallengeResponse
verifyChallengeResponse(challenge, response, publicKey) ==
    verifySignature(hash(challenge), response, publicKey)

\* OffChainService.generateAccessToken at clock value `clock`, drawing the
\* random value r; the validity is counted in ticks of the clock
generateAccessToken(privateKey, validitySeconds, clock, r) ==
    LET expiresAt == clock + validitySeconds
        token     == T_access \o <<"_">> \o JSONstringify(Num(expiresAt)) \o <<"_">> \o hexlify(r)
        tokenHash == hash(token)
        signature == signData(tokenHash, privateKey)
    IN  IF ~signature.ok THEN signature
        ELSE Return([token |-> token, signature |-> signature.v, expiresAt |-> expiresAt])

\* OffChainService.verifyAccessToken at clock value `clock`
verifyAccessTokenMutant(token, signature, publicKey, clock) ==
    verifySignature(hash(token), signature, publicKey)
verifyAccessToken(token, signature, publicKey, clock) ==
    LET parts == split(token, "_")
    IN  IF Len(parts) < 2 THEN FALSE
        ELSE IF Greater(Num(clock), parseInt(parts[2])) THEN FALSE
        ELSE verifySignature(hash(token), signature, publicKey)

(***************************************************************************)
(* VCIssuer                                                                *)
(***************************************************************************)

\* `${value}` for the values an issuer id takes
TemplateText(val) ==
    CASE val.t = "string"    -> val.v
      [] val.t = "undefined" -> T_undefined
      [] val.t = "number"    -> JSONstringify(val)
      [] OTHER               -> HexText(val)

\* [...head, ...more] when `more` is given
Spread(head, more) == IF Truthy(more) /\ IsArr(more) THEN head \o more.v ELSE head

\* field added only when its option is truthy
Optional(o, key, val) == IF Truthy(val) THEN Assign(o, key, val) ELSE o

\* VCIssuer.createCredentialDocument, called at clock value `clock`
createCredentialDocument(issuer, credentialSubject, options, clock) ==
    LET validFrom  == Str(toISOString(Date(clock)))
        validUntil == IF Truthy(options.validityDays)
                      THEN Str(toISOString(Date(clock + options.validityDays.v)))
                      ELSE Undefined
        context    == Spread(<<Str(W3C_VC_CONTEXT_V2)>>, options.additionalContexts)
        type       == Spread(<<Str(T_VerifiableCredential)>>, options.credentialTypes)
        credential == Obj(<< P(K_context, Arr(context)),
                             P(K_type, Arr(type)),
                             P(K_issuer, issuer),
                             P(K_validFrom, validFrom),
                             P(K_credentialSubject, credentialSubject) >>)
        c1 == Optional(credential, K_id, options.credentialId)
        c2 == Optional(c1, K_validUntil, validUntil)
        c3 == Optional(c2, K_credentialStatus, options.credentialStatus)
        c4 == Optional(c3, K_credentialSchema, options.credentialSchema)
        c5 == Optional(c4, K_evidence, options.evidence)
    IN  Optional(c5, K_termsOfUse, options.termsOfUse)

\* VCIssuer.issueOffChainCredential
issueOffChainCredentialLeaking(issuer, credentialSubject, privateKey, options, clock) ==
    IF ~Truthy(options.publicKey)
    THEN Throw("publicKey is required for off-chain credentials")
    ELSE LET credential == createCredentialDocument(issuer, credentialSubject, options, clock)
             signed     == signData(VCIssuer_createCanonicalHash(credential), privateKey)
             proof      == Obj(<< P(K_type, Str(T_EcdsaSecp256k1RecoverySignature2020)),
                                  P(K_created, Str(toISOString(Date(clock)))),
                                  P(K_proofPurpose, Str(T_assertionMethod)),
                                  P(K_verificationMethod, Str(TemplateText(privateKey) \o T_keys1)),
                                  P(K_proofValue, signed.v) >>)
         IN  IF ~signed.ok THEN signed
             ELSE Return(With(credential, K_proof, proof))
issueOffChainCredentialMutant(issuer, credentialSubject, privateKey, options, clock) ==
    LET credential == createCredentialDocument(issuer, credentialSubject, options, clock)
        signed     == signData(VCIssuer_createCanonicalHash(credential), privateKey)
        proof      == Obj(<< P(K_type, Str(T_EcdsaSecp256k1RecoverySignature2020)),
                             P(K_proofValue, signed.v) >>)
    IN  IF ~signed.ok THEN signed ELSE Return(With(credential, K_proof, proof))
issueOffChainCredential(issuer, credentialSubject, privateKey, options, clock) ==
    IF ~Truthy(options.publicKey)
    THEN Throw("publicKey is required for off-chain credentials")
    ELSE LET credential     == createCredentialDocument(issuer, credentialSubject, options, clock)
             credentialHash == VCIssuer_createCanonicalHash(credential)
             signed         == signData(credentialHash, privateKey)
             issuerId       == IF issuer.t = "string" THEN issuer ELSE Get(issuer, K_id)
             proof          == Obj(<< P(K_type, Str(T_EcdsaSecp256k1RecoverySignature2020)),
                                      P(K_created, Str(toISOString(Date(clock)))),
                                      P(K_proofPurpose, Str(T_assertionMethod)),
                                      P(K_verificationMethod, Str(TemplateText(issuerId) \o T_keys1)),
                                      P(K_proofValue, signed.v) >>)
         IN  IF ~signed.ok THEN signed
             ELSE Return(With(credential, K_proof, proof))

\* VCIssuer.issueOnChainCredential
issueOnChainCredentialMutant(issuer, credentialSubject, privateKey, options, clock) ==
    IF ~Truthy(options.ethereumAddress)
    THEN Throw("ethereumAddress is required for on-chain credentials")
    ELSE LET credential == createCredentialDocument(issuer, credentialSubject, options, clock)
             signed     == signForBlockchain(VCIssuer_createCanonicalHash(credential), privateKey)
             proof      == Obj(<< P(K_type, Str(T_EcdsaSecp256k1Signature2019)),
                                  P(K_verificationMethod, options.ethereumAddress),
                                  P(K_proofValue, IF signed.ok THEN signed.v ELSE Undefined) >>)
         IN  Return(With(credential, K_proof, proof))
issueOnChainCredential(issuer, credentialSubject, privateKey, options, clock) ==
    IF ~Truthy(options.ethereumAddress)
    THEN Throw("ethereumAddress is required for on-chain credentials")
    ELSE LET credential     == createCredentialDocument(issuer, credentialSubject, options, clock)
             credentialHash == VCIssuer_createCanonicalHash(credential)
             signed         == signForBlockchain(credentialHash, privateKey)
             proof          == Obj(<< P(K_type, Str(T_EcdsaSecp256k1Signature2019)),
                                      P(K_created, Str(toISOString(Date(clock)))),
                                      P(K_proofPurpose, Str(T_assertionMethod)),
                                      P(K_verificationMethod, options.ethereumAddress),
                                      P(K_proofValue, signed.v) >>)
         IN  IF ~signed.ok THEN signed
             ELSE Return(With(credential, K_proof, proof))

\* The calls an issuance makes before it returns or throws, in order
issueOffChainCredentialCalls(options) ==
    IF ~Truthy(options.publicKey) THEN << >>
    ELSE <<"createCredentialDocument", "createCanonicalHash", "signData">>

issueOnChainCredentialCalls(options) ==
    IF ~Truthy(options.ethereumAddress) THEN << >>
    ELSE <<"createCredentialDocument", "createCanonicalHash", "signForBlockchain">>

(***************************************************************************)
(* VCVerifier                                                              *)
(***************************************************************************)

\* Reading a property of null or undefined throws a TypeError.
IsNullish(val) == val.t \in {"null", "undefined"}

\* VCVerifier.extractProof
extractProofMutant(cred) ==
    IF IsNullish(cred) THEN Throw("TypeError")
    ELSE LET proof == Get(cred, K_proof)
         IN  IF ~Truthy(proof) THEN Return(Null)
             ELSE IF IsArr(proof)
                  THEN Return(IF proof.v = << >> THEN Undefined ELSE proof.v[Len(proof.v)])
                  ELSE Return(proof)
extractProof(cred) ==
    IF IsNullish(cred) THEN Throw("TypeError")
    ELSE LET proof == Get(cred, K_proof)
         IN  IF ~Truthy(proof) THEN Return(Null)
             ELSE IF IsArr(proof)
                  THEN Return(IF proof.v = << >> THEN Undefined ELSE proof.v[1])
                  ELSE Return(proof)

\* vc.type.includes("VerifiableCredential"): Array.prototype.includes on an
\* array, String.prototype.includes on a string, a TypeError on anything else.
typeIncludesMutant(type) == Return(TRUE)
typeIncludes(type) ==
    CASE type.t = "array"  -> Return(\E i \in 1..Len(type.v) : type.v[i] = Str(T_VerifiableCredential))
      [] type.t = "string" -> Return(StrIncludes(type.v, T_VerifiableCredential))
      [] IsHex(type)       -> Return(FALSE)
      [] OTHER             -> Throw("TypeError")

Valid           == [valid |-> TRUE, reason |-> ""]
Invalid(reason) == [valid |-> FALSE, reason |-> reason]

\* options.checkX !== false
NotFalse(val) == val # Bool(FALSE)

\* VCVerifier.validateCredential, called at clock value `clock`.  The reasons
\* of the two temporal failures are kept up to their first sentence (the code
\* appends the date it compared against).
validateCredentialMutant(cred, options, clock) ==
    LET currentTime == IF Truthy(options.currentTime) THEN options.currentTime ELSE Date(clock)
        type        == Get(cred, K_type)
    IN  IF ~Truthy(Get(cred, K_context)) \/ ~Truthy(type)
           \/ ~Truthy(Get(cred, K_issuer)) \/ ~Truthy(Get(cred, K_credentialSubject))
        THEN Return(Invalid("Credential missing required fields"))
        ELSE IF ~typeIncludes(type).ok THEN typeIncludes(type)
        ELSE IF ~typeIncludes(type).v
        THEN Return(Invalid("Credential type must include \"VerifiableCredential\""))
        ELSE IF NotFalse(options.checkNotBefore) /\ Truthy(Get(cred, K_validFrom))
                /\ DateLess(currentTime, NewDate(Get(cred, K_validFrom)))
        THEN Return(Invalid("Credential not yet valid"))
        ELSE IF NotFalse(options.checkExpiration) /\ Truthy(Get(cred, K_validUntil))
                /\ DateLess(NewDate(Get(cred, K_validUntil)), currentTime)
        THEN Return(Invalid("Credential expired"))
        ELSE Return(Valid)
validateCredential(cred, options, clock) ==
    LET currentTime == IF Truthy(options.currentTime) THEN options.currentTime ELSE Date(clock)
        type        == Get(cred, K_type)
    IN  IF NotFalse(options.checkNotBefore) /\ Truthy(Get(cred, K_validFrom))
           /\ DateLess(currentTime, NewDate(Get(cred, K_validFrom)))
        THEN Return(Invalid("Credential not yet valid"))
        ELSE IF NotFalse(options.checkExpiration) /\ Truthy(Get(cred, K_validUntil))
                /\ DateLess(NewDate(Get(cred, K_validUntil)), currentTime)
        THEN Return(Invalid("Credential expired"))
        ELSE IF ~Truthy(Get(cred, K_context)) \/ ~Truthy(type)
                \/ ~Truthy(Get(cred, K_issuer)) \/ ~Truthy(Get(cred, K_credentialSubject))
        THEN Return(Invalid("Credential missing required fields"))
        ELSE IF ~typeIncludes(type).ok THEN typeIncludes(type)
        ELSE IF ~typeIncludes(type).v
        THEN Return(Invalid("Credential type must include \"VerifiableCredential\""))
        ELSE Return(Valid)

\* VCVerifier.extractCredentialDetails, called at clock value `clock`
extractCredentialDetails(cred, clock) ==
    LET issuer  == Get(cred, K_issuer)
        subject == Get(cred, K_credentialSubject)
        first   == IF subject.v = << >> THEN Undefined ELSE subject.v[1]
    IN  [ issuer     |-> IF issuer.t = "string" \/ IsHex(issuer) THEN issuer ELSE Get(issuer, K_id),
          subject    |-> IF IsArr(subject)
                         THEN (IF IsNullish(first) THEN Undefined ELSE Get(first, K_id))
                         ELSE Get(subject, K_id),
          validFrom  |-> Get(cred, K_validFrom),
          validUntil |-> Get(cred, K_validUntil),
          isExpired  |-> IF Truthy(Get(cred, K_validUntil))
                         THEN DateLess(NewDate(Get(cred, K_validUntil)), Date(clock))
                         ELSE FALSE,
          types      |-> Get(cred, K_type),
          id         |-> Get(cred, K_id) ]

NoDetails ==
    [ issuer |-> Undefined, subject |-> Undefined, validFrom |-> Undefined,
      validUntil |-> Undefined, isExpired |-> FALSE, types |-> Undefined, id |-> Undefined ]

\* A VerificationResult; `raised` tells that the call threw instead of returning.
Failure(error) == [raised |-> FALSE, verified |-> FALSE, error |-> error, details |-> NoDetails]
Success(details) == [raised |-> FALSE, verified |-> TRUE, error |-> "", details |-> details]
Raised(error) == [raised |-> TRUE, verified |-> FALSE, error |-> error, details |-> NoDetails]

\* The try block of VCVerifier.verifyOffChainCredential: a result, or a throw
verifyOffChainCredentialTry(cred, publicKey, options, clock) ==
    LET proof == extractProof(cred)
    IN  IF ~proof.ok THEN proof
        ELSE IF ~Truthy(proof.v) THEN Return(Failure("No proof found in credential"))
        ELSE LET credential     == Without(cred, K_proof)
                 credentialHash == createCanonicalHash(credential)
                 signatureValid == verifySignature(credentialHash, Get(proof.v, K_proofValue), publicKey)
                 validationResult == validateCredential(cred, options, clock)
             IN  IF ~signatureValid THEN Return(Failure("Invalid signature"))
                 ELSE IF ~validationResult.ok THEN validationResult
                 ELSE IF ~validationResult.v.valid THEN Return(Failure(validationResult.v.reason))
                 ELSE Return(Success(extractCredentialDetails(cred, clock)))

\* VCVerifier.verifyOffChainCredential: the catch turns every throw into a result
verifyOffChainCredentialMutant(cred, publicKey, options, clock) ==
    LET r == verifyOffChainCredentialTry(cred, publicKey, options, clock)
    IN  IF r.ok THEN r.v ELSE Raised(r.v)
verifyOffChainCredential(cred, publicKey, options, clock) ==
    LET r == verifyOffChainCredentialTry(cred, publicKey, options, clock)
    IN  IF r.ok THEN r.v ELSE Failure("Verification failed: " \o r.v)

(***************************************************************************)
(* VCRevoke                                                                *)
(***************************************************************************)

\* const { proof, ...credential } = vc : destructuring null or undefined throws
\* VCRevoke.getCredentialHash
getCredentialHashMutant(cred) == Return(createCanonicalHash(cred))
getCredentialHash(cred) ==
    IF IsNullish(cred) THEN Throw("TypeError")
    ELSE Return(createCanonicalHash(Without(cred, K_proof)))

\* VCRevoke.convertToOnChain, called at clock value `clock`
convertToOnChainMutant(offChainVC, privateKey, ethereumAddress, clock) ==
    IF IsNullish(offChainVC) THEN Throw("TypeError")
    ELSE LET signed == signForBlockchain(createCanonicalHash(Without(offChainVC, K_proof)), privateKey)
         IN  IF ~signed.ok THEN signed
             ELSE Return(Obj(<< P(K_proof, Obj(<< P(K_proofValue, signed.v) >>)) >>))
convertToOnChain(offChainVC, privateKey, ethereumAddress, clock) ==
    IF IsNullish(offChainVC) THEN Throw("TypeError")
    ELSE LET credential     == Without(offChainVC, K_proof)
             credentialHash == createCanonicalHash(credential)
             signed         == signForBlockchain(credentialHash, privateKey)
             onChainProof   == Obj(<< P(K_type, Str(T_EcdsaSecp256k1Signature2019)),
                                      P(K_created, Str(toISOString(Date(clock)))),
                                      P(K_proofPurpose, Str(T_assertionMethod)),
                                      P(K_verificationMethod, ethereumAddress),
                                      P(K_proofValue, signed.v) >>)
         IN  IF ~signed.ok THEN signed
             ELSE Return(With(credential, K_proof, onChainProof))

\* VCRevoke.verifyHashConsistency
verifyHashConsistency(offChainVC, onChainVCArg) ==
    LET offChainHash == getCredentialHash(offChainVC)
        onChainHash  == getCredentialHash(onChainVCArg)
    IN  IF ~offChainHash.ok THEN offChainHash
        ELSE IF ~onChainHash.ok THEN onChainHash
        ELSE Return(offChainHash.v = onChainHash.v)

\* VCRevoke.verifyOnChainSignature
verifyOnChainSignature(onChainVCArg, expectedAddress) ==
    LET credentialHash == getCredentialHash(onChainVCArg)
        p     == Get(onChainVCArg, K_proof)
        proof == IF IsArr(p) THEN (IF p.v = << >> THEN Undefined ELSE p.v[1]) ELSE p
    IN  IF ~credentialHash.ok THEN credentialHash
        ELSE IF ~Truthy(proof) \/ ~Truthy(Get(proof, K_proofValue))
        THEN Throw("VC does not have a valid proof")
        ELSE Return(verifyBlockchainSignature(credentialHash.v, Get(proof, K_proofValue), expectedAddress))

(***************************************************************************)
(* The async operations between their suspension points.  Each has one     *)
(* await (of signData, verifySignature or signForBlockchain): the code up   *)
(* to it runs when the operation is called, the code after it when the      *)
(* awaited promise has settled.  A frame holds the locals that live across  *)
(* the await.                                                               *)
(***************************************************************************)

NoFrame == [credential |-> Undefined, awaited |-> Throw("")]

Suspended(frame) == [settled |-> FALSE, frame |-> frame, out |-> Throw("")]
Settled(out)     == [settled |-> TRUE, frame |-> NoFrame, out |-> out]

\* VCIssuer.issueOffChainCredential up to `await this.offChainService.signData`
issueOffChainCredentialStart(issuer, credentialSubject, privateKey, options, clock) ==
    IF ~Truthy(options.publicKey)
    THEN Settled(Throw("publicKey is required for off-chain credentials"))
    ELSE LET credential     == createCredentialDocument(issuer, credentialSubject, options, clock)
             credentialHash == VCIssuer_createCanonicalHash(credential)
         IN  Suspended([credential |-> credential, awaited |-> signData(credentialHash, privateKey)])

\* VCIssuer.issueOffChainCredential from the await on
issueOffChainCredentialResume(issuer, frame, clock) ==
    IF ~frame.awaited.ok THEN frame.awaited
    ELSE LET issuerId == IF issuer.t = "string" THEN issuer ELSE Get(issuer, K_id)
             proof    == Obj(<< P(K_type, Str(T_EcdsaSecp256k1RecoverySignature2020)),
                                P(K_created, Str(toISOString(Date(clock)))),
                                P(K_proofPurpose, Str(T_assertionMethod)),
                                P(K_verificationMethod, Str(TemplateText(issuerId) \o T_keys1)),
                                P(K_proofValue, frame.awaited.v) >>)
         IN  Return(With(frame.credential, K_proof, proof))

\* VCVerifier.verifyOffChainCredential up to `await this.offChainService.verifySignature`
verifyOffChainCredentialStart(cred, publicKey) ==
    LET proof == extractProof(cred)
    IN  IF ~proof.ok THEN Settled(Return(Failure("Verification failed: " \o proof.v)))
        ELSE IF ~Truthy(proof.v) THEN Settled(Return(Failure("No proof found in credential")))
        ELSE LET credential     == Without(cred, K_proof)
                 credentialHash == createCanonicalHash(credential)
             IN  Suspended([ credential |-> credential,
                             awaited |-> Return(verifySignature(credentialHash,
                                                                Get(proof.v, K_proofValue), publicKey)) ])

\* VCVerifier.verifyOffChainCredential from the await on; `cred` is read again
verifyOffChainCredentialResume(cred, options, frame, clock) ==
    IF ~frame.awaited.v THEN Return(Failure("Invalid signature"))
    ELSE LET validationResult == validateCredential(cred, options, clock)
         IN  IF ~validationResult.ok
             THEN Return(Failure("Verification failed: " \o validationResult.v))
             ELSE IF ~validationResult.v.valid THEN Return(Failure(validationResult.v.reason))
             ELSE Return(Success(extractCredentialDetails(cred, clock)))

\* VCRevoke.convertToOnChain up to `await this.onChainService.signForBlockchain`
convertToOnChainStart(offChainVC, privateKey) ==
    IF IsNullish(offChainVC) THEN Settled(Throw("TypeError"))
    ELSE LET credential     == Without(offChainVC, K_proof)
             credentialHash == createCanonicalHash(credential)
         IN  Suspended([ credential |-> credential,
                         awaited |-> signForBlockchain(credentialHash, privateKey) ])

\* VCRevoke.convertToOnChain from the await on: what it returns, and the
\* object it was handed as the call leaves it (it builds a new object and
\* writes nothing into its argument).
convertToOnChainResumeMutant(offChainVC, ethereumAddress, frame, clock) ==
    LET onChainProof == Obj(<< P(K_type, Str(T_EcdsaSecp256k1Signature2019)),
                               P(K_created, Str(toISOString(Date(clock)))),
                               P(K_proofPurpose, Str(T_assertionMethod)),
                               P(K_verificationMethod, ethereumAddress),
                               P(K_proofValue, frame.awaited.v) >>)
    IN  IF ~frame.awaited.ok THEN [out |-> frame.awaited, offChainVC |-> offChainVC]
        ELSE [ out |-> Return(Assign(offChainVC, K_proof, onChainProof)),
               offChainVC |-> Assign(offChainVC, K_proof, onChainProof) ]
convertToOnChainResume(offChainVC, ethereumAddress, frame, clock) ==
    LET onChainProof == Obj(<< P(K_type, Str(T_EcdsaSecp256k1Signature2019)),
                               P(K_created, Str(toISOString(Date(clock)))),
                               P(K_proofPurpose, Str(T_assertionMethod)),
                               P(K_verificationMethod, ethereumAddress),
                               P(K_proofValue, frame.awaited.v) >>)
    IN  IF ~frame.awaited.ok THEN [out |-> frame.awaited, offChainVC |-> offChainVC]
        ELSE [ out |-> Return(With(frame.credential, K_proof, onChainProof)),
               offChainVC |-> offChainVC ]

(***************************************************************************)
(* Inputs of the credential lifecycle                                      *)
(***************************************************************************)

K_name == <<"n", "a", "m", "e">>
K_role == <<"r", "o", "l", "e">>
K_data == <<"d", "a", "t", "a">>
K_a    == <<"a">>
K_b    == <<"b">>
\* a property name holding the text of two properties: a":1,"b
K_a1b  == <<"a", "\"", ":", "1", ",", "\"", "b">>
\* a property name holding the text of two properties: id":"i","name
K_idname == <<"i", "d", "\"", ":", "\"", "i", "\"", ",", "\"", "n", "a", "m", "e">>

IssuerObject == Obj(<< P(K_id, Str(<<"i">>)), P(K_name, Str(<<"n">>)) >>)
IssuerString == Str(<<"i">>)
Issuers == {IssuerObject, IssuerString}

Subject ==
    Obj(<< P(K_id, Str(<<"s">>)),
           P(K_role, Str(<<"u", "s", "e", "r">>)),
           P(K_data, Obj(<< P(K_b, Num(2)), P(K_a, Num(1)) >>)) >>)

PrivateKeys == { PrivateKeyOf(i) : i \in Identities }

\* CreateCredentialOptions & { validityDays, publicKey, ethereumAddress }
IssueOptions(keyMaterial, validityDays, extras) ==
    [ publicKey          |-> IF keyMaterial.t = "pub" THEN keyMaterial ELSE Undefined,
      ethereumAddress    |-> IF keyMaterial.t = "addr" THEN keyMaterial ELSE Undefined,
      validityDays       |-> validityDays,
      credentialTypes    |-> IF extras THEN Arr(<<Str(<<"A", "c", "c", "e", "s", "s">>)>>) ELSE Undefined,
      additionalContexts |-> IF extras THEN Arr(<<Str(<<"c", "t", "x">>)>>) ELSE Undefined,
      credentialId       |-> IF extras THEN Str(<<"u", "r", "n", ":", "1">>) ELSE Undefined,
      credentialStatus   |-> Undefined,
      credentialSchema   |-> Undefined,
      evidence           |-> Undefined,
      termsOfUse         |-> Undefined ]

ValidityDays == {Undefined, Num(-1), Num(1)}

\* validityDays: 0, a validity period that ends when it begins
ZeroDays == Num(0)

\* options of verifyOffChainCredential
VerifyOptions(checkExpiration, checkNotBefore, currentTime) ==
    [ checkExpiration |-> checkExpiration, checkNotBefore |-> checkNotBefore,
      currentTime |-> currentTime ]

VerifyOptionsSet ==
    { VerifyOptions(Undefined, Undefined, Undefined),
      VerifyOptions(Bool(FALSE), Undefined, Undefined),
      VerifyOptions(Bool(FALSE), Bool(FALSE), Undefined),
      VerifyOptions(Bool(TRUE), Bool(TRUE), Date(0)),
      VerifyOptions(Undefined, Undefined, Date(1)),
      VerifyOptions(Undefined, Undefined, Date(MaxTime + 1)) }

\* Documents a verifier may be handed that no issuer made
MalformedVCs ==
    { Null, Undefined, Obj(<< >>),
      Obj(<< P(K_name, Str(<<"n">>)) >>),
      Obj(<< P(K_proof, Null) >>),
      Obj(<< P(K_proof, Obj(<< >>)) >>),
      Obj(<< P(K_proof, Arr(<< >>)) >>),
      Obj(<< P(K_credentialSubject, Null) >>),
      Obj(<< P(K_issuer, Null) >>),
      Obj(<< P(K_type, Arr(<<Str(<<"O", "t", "h", "e", "r">>)>>)) >>),
      Obj(<< P(K_type, Num(5)), P(K_proof, Str(<<"n">>)) >>),
      Num(5), Str(<<"n">>) }

\* A change of one field after issuance: the path of the field and its new value.
\* kind "claims" marks the fields of the subject, the issuer and validFrom.
Tampering ==
    { [kind |-> "claims", path |-> <<K_issuer>>, value |-> Str(<<"e", "v", "e">>)],
      [kind |-> "claims", path |-> <<K_issuer>>, value |-> Obj(<< P(K_idname, Str(<<"n">>)) >>)],
      [kind |-> "claims", path |-> <<K_issuer, K_id>>, value |-> Str(<<"e", "v", "e">>)],
      [kind |-> "claims", path |-> <<K_validFrom>>, value |-> Str(toISOString(Date(MaxTime + 1)))],
      [kind |-> "claims", path |-> <<K_validFrom>>, value |-> Str(<<"s", "o", "o", "n">>)],
      [kind |-> "claims", path |-> <<K_credentialSubject, K_role>>, value |-> Str(<<"a", "d", "m", "i", "n">>)],
      [kind |-> "claims", path |-> <<K_credentialSubject, K_data>>, value |-> Obj(<< P(K_a1b, Num(2)) >>)],
      [kind |-> "claims", path |-> <<K_credentialSubject, K_data>>, value |-> Null],
      [kind |-> "other", path |-> <<K_validUntil>>, value |-> Str(toISOString(Date(0)))],
      [kind |-> "other", path |-> <<K_type>>, value |-> Arr(<<Str(<<"O", "t", "h", "e", "r">>)>>)],
      [kind |-> "other", path |-> <<K_type>>, value |-> Num(5)],
      [kind |-> "other", path |-> <<K_type>>, value |-> Str(<<"N", "o", "t">> \o T_VerifiableCredential)],
      [kind |-> "other", path |-> <<K_context>>, value |-> Undefined] }

NoTampering == [kind |-> "none", path |-> << >>, value |-> Undefined]

\* o.k1 = value, or o.k1.k2 = value
SetPath(o, path, value) ==
    IF Len(path) = 1 THEN Assign(o, path[1], value)
    ELSE Assign(o, path[1], Assign(Get(o, path[1]), path[2], value))

GetPath(o, path) ==
    IF Len(path) = 1 THEN Get(o, path[1]) ELSE Get(Get(o, path[1]), path[2])

(***************************************************************************)
(* The credential lifecycle as a state machine                             *)
(***************************************************************************)

NotIssued ==
    [ mode |-> "none", privateKey |-> Garbage, options |-> IssueOptions(Garbage, Undefined, FALSE),
      out |-> Throw(""), calls |-> << >>, hash |-> Garbage, clock |-> 0,
      tampering |-> NoTampering, resigned |-> FALSE ]

NoConversion ==
    [ call |-> "none", privateKey |-> Garbage, ethereumAddress |-> Garbage, out |-> Throw(""),
      checked |-> FALSE, expectedAddress |-> Garbage, valid |-> Throw("") ]

NoResult ==
    [ call |-> "none", publicKey |-> Garbage, options |-> VerifyOptions(Undefined, Undefined, Undefined),
      clock |-> 0, out |-> Failure("") ]

NoSig ==
    [ op |-> "none", data |-> Garbage, privateKey |-> Garbage, prefix |-> FALSE,
      signed |-> Throw(""), expected |-> Garbage, prefixV |-> FALSE, valid |-> FALSE ]

\* The invocations that may be in flight at once
Tasks == {1, 2}

NoInvocation == [op |-> "none", privateKey |-> Garbage, key |-> Garbage]

NoTask ==
    [ inv |-> NoInvocation, pc |-> "free", frame |-> NoFrame, c1 |-> 0, c2 |-> 0,
      others |-> {}, out |-> Throw("") ]

NoCheck == [op |-> "none", publicKey |-> Garbage, clock |-> 0, replay |-> FALSE, out |-> FALSE]

NoAuth ==
    [ flow |-> "none", signer |-> 0,
      token |-> << >>, signature |-> Garbage, expiresAt |-> 0, altered |-> FALSE,
      challenge |-> << >>, response |-> Garbage, used |-> {},
      check |-> NoCheck ]

Idle == result.call = "none" /\ onChainVC.call = "none" /\ ~onChainVC.checked

InitLifecycle ==
    /\ now = 1
    /\ vc = Undefined
    /\ issued = NotIssued
    /\ onChainVC = NoConversion
    /\ result = NoResult

InitCanon == x = Undefined /\ y = Undefined /\ cx = << >> /\ cy = << >>

InitCrypto == sig = NoSig

InitTasks == tasks = [t \in Tasks |-> NoTask]

InitAuth == auth = NoAuth

Init == InitLifecycle /\ InitCanon /\ InitCrypto /\ InitTasks /\ InitAuth

\* issuer.issueOffChainCredential(issuer, subject, privateKey, options)
IssueOffChain(issuer, privateKey, options) ==
    /\ issued.mode = "none" /\ vc = Undefined
    /\ LET out == issueOffChainCredential(issuer, Subject, privateKey, options, now)
       IN  /\ vc' = IF out.ok THEN out.v ELSE Undefined
           /\ issued' = [ mode |-> "off", privateKey |-> privateKey, options |-> options, out |-> out,
                          calls |-> issueOffChainCredentialCalls(options),
                          hash |-> IF out.ok
                                   THEN VCIssuer_createCanonicalHash(
                                            createCredentialDocument(issuer, Subject, options, now))
                                   ELSE Garbage,
                          clock |-> now, tampering |-> NoTampering, resigned |-> FALSE ]
    /\ UNCHANGED <<x, y, cx, cy, now, onChainVC, result, sig, tasks, auth>>

\* issuer.issueOnChainCredential(issuer, subject, privateKey, options)
IssueOnChain(issuer, privateKey, options) ==
    /\ issued.mode = "none" /\ vc = Undefined
    /\ LET out == issueOnChainCredential(issuer, Subject, privateKey, options, now)
       IN  /\ vc' = IF out.ok THEN out.v ELSE Undefined
           /\ issued' = [ mode |-> "on", privateKey |-> privateKey, options |-> options, out |-> out,
                          calls |-> issueOnChainCredentialCalls(options),
                          hash |-> IF out.ok
                                   THEN VCIssuer_createCanonicalHash(
                                            createCredentialDocument(issuer, Subject, options, now))
                                   ELSE Garbage,
                          clock |-> now, tampering |-> NoTampering, resigned |-> FALSE ]
    /\ UNCHANGED <<x, y, cx, cy, now, onChainVC, result, sig, tasks, auth>>

\* A document from an untrusted source reaches the verifier.
Receive(doc) ==
    /\ issued.mode = "none" /\ vc = Undefined
    /\ vc' = doc
    /\ issued' = [NotIssued EXCEPT !.mode = "received"]
    /\ UNCHANGED <<x, y, cx, cy, now, onChainVC, result, sig, tasks, auth>>

\* The holder of an issued credential changes one field and keeps the proof.
Tamper(tm) ==
    /\ issued.mode \in {"off", "on"} /\ issued.out.ok /\ Idle
    /\ issued.tampering.kind = "none" /\ ~issued.resigned
    /\ Len(tm.path) = 2 => IsObj(Get(vc, tm.path[1]))
    /\ GetPath(vc, tm.path) # tm.value
    /\ vc' = SetPath(vc, tm.path, tm.value)
    /\ issued' = [issued EXCEPT !.tampering = tm]
    /\ UNCHANGED <<x, y, cx, cy, now, onChainVC, result, sig, tasks, auth>>

\* The issuer signs the changed document again with the raw scheme
\* (createCanonicalHash, signData, proof.proofValue = signature).
ReSign ==
    /\ issued.mode = "off" /\ issued.out.ok /\ Idle
    /\ issued.tampering.kind # "none" /\ ~issued.resigned
    /\ LET credHash == VCIssuer_createCanonicalHash(Without(vc, K_proof))
           signed   == signData(credHash, issued.privateKey)
       IN  vc' = Assign(vc, K_proof, Assign(Get(vc, K_proof), K_proofValue, signed.v))
    /\ issued' = [issued EXCEPT !.resigned = TRUE]
    /\ UNCHANGED <<x, y, cx, cy, now, onChainVC, result, sig, tasks, auth>>

\* A day passes.
Tick ==
    /\ issued.mode \in {"off", "on"} /\ issued.out.ok /\ Idle
    /\ now < MaxTime
    /\ now' = now + 1
    /\ UNCHANGED <<x, y, cx, cy, vc, issued, onChainVC, result, sig, tasks, auth>>

\* verifier.verifyOffChainCredential(vc, publicKey, options)
VerifyOffChain(publicKey, options) ==
    /\ issued.mode # "none" /\ Idle
    /\ issued.mode \in {"off", "on"} => issued.out.ok
    /\ result' = [ call |-> "verifyOffChainCredential", publicKey |-> publicKey, options |-> options,
                   clock |-> now, out |-> verifyOffChainCredential(vc, publicKey, options, now) ]
    /\ UNCHANGED <<x, y, cx, cy, now, vc, issued, onChainVC, sig, tasks, auth>>

\* revoker.convertToOnChain(vc, privateKey, ethereumAddress)
ConvertToOnChain(privateKey, ethereumAddress) ==
    /\ issued.mode # "none" /\ Idle
    /\ issued.mode \in {"off", "on"} => issued.out.ok
    /\ onChainVC' = [ NoConversion EXCEPT !.call = "convertToOnChain", !.privateKey = privateKey,
                                          !.ethereumAddress = ethereumAddress,
                                          !.out = convertToOnChain(vc, privateKey, ethereumAddress, now) ]
    /\ UNCHANGED <<x, y, cx, cy, now, vc, issued, result, sig, tasks, auth>>

\* revoker.verifyOnChainSignature(credential, expectedAddress), of the
\* converted credential when there is one and of vc otherwise
VerifyOnChainSignature(expectedAddress) ==
    /\ issued.mode # "none" /\ result.call = "none" /\ ~onChainVC.checked
    /\ issued.mode \in {"off", "on"} => issued.out.ok
    /\ onChainVC.call = "convertToOnChain" => onChainVC.out.ok
    /\ onChainVC' = [ onChainVC EXCEPT
                        !.checked = TRUE, !.expectedAddress = expectedAddress,
                        !.valid = verifyOnChainSignature(
                                      IF onChainVC.call = "convertToOnChain" THEN onChainVC.out.v ELSE vc,
                                      expectedAddress) ]
    /\ UNCHANGED <<x, y, cx, cy, now, vc, issued, result, sig, tasks, auth>>

KeyMaterial == { PublicKeyOf(i) : i \in Identities } \cup { AddressOf(i) : i \in Identities }

Next ==
    \/ \E issuer \in Issuers, i \in Identities, days \in ValidityDays, extras \in BOOLEAN :
          IssueOffChain(issuer, PrivateKeyOf(i), IssueOptions(PublicKeyOf(i), days, extras))
    \/ \E issuer \in Issuers, key \in PrivateKeys \cup {Garbage} :
          IssueOffChain(issuer, key, IssueOptions(IF key = Garbage THEN PublicKeyOf(1) ELSE Undefined,
                                                  Undefined, FALSE))
    \/ \E issuer \in Issuers, i \in Identities, days \in ValidityDays :
          IssueOnChain(issuer, PrivateKeyOf(i), IssueOptions(AddressOf(i), days, FALSE))
    \/ \E issuer \in Issuers, key \in PrivateKeys \cup {Garbage} :
          IssueOnChain(issuer, key, IssueOptions(IF key = Garbage THEN AddressOf(1) ELSE Undefined,
                                                 Undefined, FALSE))
    \/ \E issuer \in {IssuerString} :
          IssueOffChain(issuer, PrivateKeyOf(1), IssueOptions(PublicKeyOf(1), ZeroDays, FALSE))
    \/ \E doc \in MalformedVCs : Receive(doc)
    \/ \E tm \in Tampering : Tamper(tm)
    \/ ReSign
    \/ Tick
    \/ \E publicKey \in KeyMaterial, options \in VerifyOptionsSet : VerifyOffChain(publicKey, options)
    \/ \E i \in Identities, address \in { AddressOf(j) : j \in Identities } \cup {Undefined} :
          ConvertToOnChain(PrivateKeyOf(i), address)
    \/ \E address \in { AddressOf(j) : j \in Identities } : ConvertToOnChain(Garbage, address)
    \/ \E j \in Identities, cs \in {"mixed", "lower"} :
          VerifyOnChainSignature([AddressOf(j) EXCEPT !.v.cs = cs])

Spec == Init /\ [][Next]_vars

(***************************************************************************)
(* The crypto provider on its own: sign, then verify                       *)
(***************************************************************************)

\* An unsigned credential document and the same document carrying a proof value
UnsignedDoc == createCredentialDocument(IssuerObject, Subject, IssueOptions(Garbage, Undefined, FALSE), 1)

WithProofValue(doc, proofValue) ==
    With(doc, K_proof, Obj(<< P(K_type, Str(T_EcdsaSecp256k1RecoverySignature2020)),
                              P(K_proofValue, proofValue) >>))

\* What is signed: two canonical hashes, a prefixed digest and a non-hex string
Data == { createCanonicalHash(UnsignedDoc), hash(<<"[", "]">>), hashMessage(hash(<<"[", "]">>)), Garbage }

\* Key material a verifier may hold, in either letter case
ExpectedKeys ==
    KeyMaterial
    \cup { [k EXCEPT !.v.cs = cs] : k \in KeyMaterial, cs \in {"lower", "upper"} }
    \cup { Garbage, Undefined }

\* cryptoService.sign(data, privateKey, { ethereumPrefix })
Sign(data, privateKey, ethereumPrefix) ==
    /\ sig.op = "none"
    /\ sig' = [NoSig EXCEPT !.op = "sign", !.data = data, !.privateKey = privateKey,
                            !.prefix = ethereumPrefix,
                            !.signed = sign(data, privateKey, ethereumPrefix)]
    /\ UNCHANGED <<x, y, cx, cy, now, vc, issued, onChainVC, result, tasks, auth>>

\* cryptoService.verify(data, signature, publicKeyOrAddress, { ethereumPrefix })
\* of the signature just made, for the data it was made for
Verify(publicKeyOrAddress, ethereumPrefix) ==
    /\ sig.op = "sign" /\ sig.signed.ok
    /\ sig' = [sig EXCEPT !.op = "verify", !.expected = publicKeyOrAddress,
                          !.prefixV = ethereumPrefix,
                          !.valid = verify(sig.data, sig.signed.v, publicKeyOrAddress, ethereumPrefix)]
    /\ UNCHANGED <<x, y, cx, cy, now, vc, issued, onChainVC, result, tasks, auth>>

\* cryptoService.verify of a signature against other data than it was made for
VerifyOtherData(data, publicKeyOrAddress) ==
    /\ sig.op = "sign" /\ sig.signed.ok /\ data # sig.data
    /\ sig' = [sig EXCEPT !.op = "verifyOther", !.data = data, !.expected = publicKeyOrAddress,
                          !.prefixV = sig.prefix,
                          !.valid = verify(data, sig.signed.v, publicKeyOrAddress, sig.prefix)]
    /\ UNCHANGED <<x, y, cx, cy, now, vc, issued, onChainVC, result, tasks, auth>>

NextCrypto ==
    \/ \E data \in Data, key \in PrivateKeys \cup {Garbage}, prefix \in BOOLEAN : Sign(data, key, prefix)
    \/ \E key \in ExpectedKeys, prefix \in BOOLEAN : Verify(key, prefix)
    \/ \E data \in Data, key \in KeyMaterial : VerifyOtherData(data, key)

CryptoSpec == Init /\ [][NextCrypto]_vars

(***************************************************************************)
(* The canonicalizer on its own: two values kept structurally equal        *)
(***************************************************************************)

\* Deepest nesting at which the harness rearranges a value
MaxDepth == 2

K_c == <<"c">>
K_k == <<"k">>
K_m == <<"m">>
K_u == <<"u">>
K_z == <<"z">>

CanonValues ==
    { Num(5), Str(<<"a">>), Null,
      Obj(<< P(K_b, Num(2)), P(K_a, Num(1)), P(K_c, Undefined) >>),
      Subject,
      Arr(<< Obj(<< P(K_b, Num(1)), P(K_a, Bool(TRUE)) >>), Undefined, Str(<<"q", "\"", "\\">>) >>),
      Obj(<< P(K_z, Arr(<< Obj(<< P(K_k, Num(1)), P(K_c, Null) >>), Str(<<"a">>) >>)),
             P(K_a, Obj(<< P(K_k, Obj(<< P(K_m, Obj(<< P(K_b, Bool(FALSE)), P(K_a, Null) >>)), P(K_b, Str(<<"q", "\"", "\\">>)) >>)) >>)) >>),
      Obj(<< P(K_b, Num(-2)), P(<<"a", "\"">>, Str(<<"q", "/">>)) >>),
      createCredentialDocument(IssuerObject, Subject, IssueOptions(Garbage, Num(1), TRUE), 1) }

\* Positions of children: the i-th property value of an object, the i-th
\* element of an array.
Paths == UNION { [1..d -> 1..3] : d \in 0..MaxDepth }

IsParent(val) == val.t \in {"object", "array"}

Child(val, i) == IF IsObj(val) THEN val.v[i].v ELSE val.v[i]

RECURSIVE At(_, _)
At(val, path) ==
    IF path = << >> THEN val
    ELSE IF IsParent(val) /\ Head(path) <= Len(val.v) THEN At(Child(val, Head(path)), Tail(path))
    ELSE Garbage

RECURSIVE ReplaceAt(_, _, _)
ReplaceAt(val, path, new) ==
    IF path = << >> THEN new
    ELSE [val EXCEPT !.v[Head(path)] =
             IF IsObj(val)
             THEN [k |-> val.v[Head(path)].k, v |-> ReplaceAt(val.v[Head(path)].v, Tail(path), new)]
             ELSE ReplaceAt(val.v[Head(path)], Tail(path), new)]

SwapProps(o, i) ==
    Obj([ j \in 1..Len(o.v) |-> IF j = i THEN o.v[i + 1] ELSE IF j = i + 1 THEN o.v[i] ELSE o.v[j] ])

\* The same record is built with two neighbouring keys inserted the other way round.
SwapKeys(path, i) ==
    /\ x # Undefined
    /\ IsObj(At(y, path)) /\ i < Len(At(y, path).v)
    /\ y' = ReplaceAt(y, path, SwapProps(At(y, path), i))
    /\ cx' = << >> /\ cy' = << >>
    /\ UNCHANGED <<x, now, vc, issued, onChainVC, result, sig, tasks, auth>>

\* A key whose value is absent (undefined) is added to a record.
AddAbsentKey(path) ==
    /\ x # Undefined
    /\ IsObj(At(y, path)) /\ ~HasKey(At(y, path), K_u)
    /\ y' = ReplaceAt(y, path, Obj(<<P(K_u, Undefined)>> \o At(y, path).v))
    /\ cx' = << >> /\ cy' = << >>
    /\ UNCHANGED <<x, now, vc, issued, onChainVC, result, sig, tasks, auth>>

\* A key whose value is absent is removed from a record.
DropAbsentKey(path, i) ==
    /\ x # Undefined
    /\ IsObj(At(y, path)) /\ i <= Len(At(y, path).v) /\ At(y, path).v[i].v = Undefined
    /\ y' = ReplaceAt(y, path, Obj(SelectSeq(At(y, path).v, LAMBDA p : p.k # At(y, path).v[i].k)))
    /\ cx' = << >> /\ cy' = << >>
    /\ UNCHANGED <<x, now, vc, issued, onChainVC, result, sig, tasks, auth>>

\* crypto.canonicalize of both values
Canonicalize ==
    /\ x # Undefined /\ cx = << >>
    /\ cx' = canonicalize(x) /\ cy' = canonicalize(y)
    /\ UNCHANGED <<x, y, now, vc, issued, onChainVC, result, sig, tasks, auth>>

\* The harness picks the value to canonicalize.
Choose(val) ==
    /\ x = Undefined
    /\ x' = val /\ y' = val
    /\ UNCHANGED <<cx, cy, now, vc, issued, onChainVC, result, sig, tasks, auth>>

NextCanon ==
    \/ \E val \in CanonValues : Choose(val)
    \/ \E path \in Paths, i \in 1..3 : SwapKeys(path, i)
    \/ \E path \in Paths : AddAbsentKey(path)
    \/ \E path \in Paths, i \in 1..4 : DropAbsentKey(path, i)
    \/ Canonicalize

CanonSpec == Init /\ [][NextCanon]_vars

(***************************************************************************)
(* A credential presented with a list of proofs                            *)
(***************************************************************************)

\* The same proof with the signature the other identity makes of the same digest
OtherProof(proof) ==
    LET signature == Get(proof, K_proofValue)
    IN  Assign(proof, K_proofValue,
               SigningKey_sign(signature.v.digest,
                               CHOOSE j \in Identities : j # signature.v.signer))

\* Lists that hold the proof of the credential: alone, first, and second
ProofLists(proof) ==
    { <<proof>>,
      <<proof, OtherProof(proof)>>,
      <<proof, Null, Str(<<"n">>)>>,
      <<OtherProof(proof), proof>> }

\* The holder presents the credential with `proof` as a list.
PresentProofList ==
    /\ issued.mode \in {"off", "on"} /\ issued.out.ok /\ Idle
    /\ IsObj(Get(vc, K_proof))
    /\ \E list \in ProofLists(Get(vc, K_proof)) : vc' = Assign(vc, K_proof, Arr(list))
    /\ UNCHANGED <<x, y, cx, cy, now, issued, onChainVC, result, sig, tasks, auth>>

NextProofList ==
    \/ \E issuer \in Issuers, i \in Identities :
          IssueOffChain(issuer, PrivateKeyOf(i), IssueOptions(PublicKeyOf(i), Num(1), FALSE))
    \/ \E issuer \in Issuers, i \in Identities :
          IssueOnChain(issuer, PrivateKeyOf(i), IssueOptions(AddressOf(i), Num(1), FALSE))
    \/ \E tm \in Tampering : Tamper(tm)
    \/ PresentProofList
    \/ Tick
    \/ \E publicKey \in KeyMaterial, options \in VerifyOptionsSet : VerifyOffChain(publicKey, options)
    \/ \E j \in Identities, cs \in {"mixed", "lower"} :
          VerifyOnChainSignature([AddressOf(j) EXCEPT !.v.cs = cs])

ProofListSpec == Init /\ [][NextProofList]_vars

(***************************************************************************)
(* Invocations running concurrently on one event loop: each runs from its  *)
(* call to its await, and from its await to its return, in one piece; the   *)
(* pieces of different invocations interleave in any order, and the clock   *)
(* may advance between them.  All of them are handed the same credential    *)
(* object, `vc`.                                                            *)
(***************************************************************************)

Invocations ==
    { [op |-> "issueOffChainCredential", privateKey |-> k, key |-> pub] :
          k \in {PrivateKeyOf(1), Garbage}, pub \in {PublicKeyOf(1), Undefined} }
    \cup { [op |-> "verifyOffChainCredential", privateKey |-> Garbage, key |-> PublicKeyOf(i)] :
               i \in Identities }
    \cup { [op |-> "convertToOnChain", privateKey |-> k, key |-> AddressOf(1)] :
               k \in {PrivateKeyOf(2), Garbage} }
    \cup { [op |-> "canonicalize", privateKey |-> Garbage, key |-> Garbage] }

IssueOptionsOf(inv) == IssueOptions(inv.key, Num(1), FALSE)

DefaultVerifyOptions == VerifyOptions(Undefined, Undefined, Undefined)

\* The invocation is called: it runs up to its await, or to its end.
Start(t, inv) ==
    /\ tasks[t].pc = "free"
    /\ inv.op # "issueOffChainCredential" => vc # Undefined
    /\ LET step == CASE inv.op = "issueOffChainCredential" ->
                            issueOffChainCredentialStart(IssuerObject, Subject, inv.privateKey,
                                                         IssueOptionsOf(inv), now)
                      [] inv.op = "verifyOffChainCredential" ->
                            verifyOffChainCredentialStart(vc, inv.key)
                      [] inv.op = "convertToOnChain" ->
                            convertToOnChainStart(vc, inv.privateKey)
                      [] inv.op = "canonicalize" ->
                            Settled(Return(canonicalize(vc)))
       IN  tasks' = [ tasks EXCEPT ![t] =
                        [ inv |-> inv, pc |-> IF step.settled THEN "done" ELSE "suspended",
                          frame |-> step.frame,
                          c1 |-> IF inv.op = "issueOffChainCredential" THEN now ELSE 0,
                          c2 |-> 0, others |-> {}, out |-> step.out ] ]
    /\ UNCHANGED <<x, y, cx, cy, now, vc, issued, onChainVC, result, sig, auth>>

\* The awaited promise has settled and the invocation runs to its end.
Resume(t) ==
    /\ tasks[t].pc = "suspended"
    /\ LET task == tasks[t]
           inv  == task.inv
           conv == convertToOnChainResume(vc, inv.key, task.frame, now)
           out  == CASE inv.op = "issueOffChainCredential" ->
                            issueOffChainCredentialResume(IssuerObject, task.frame, now)
                     [] inv.op = "verifyOffChainCredential" ->
                            verifyOffChainCredentialResume(vc, DefaultVerifyOptions, task.frame, now)
                     [] inv.op = "convertToOnChain" -> conv.out
       IN  /\ tasks' = [ tasks EXCEPT ![t] =
                           [ task EXCEPT !.pc = "done", !.frame = NoFrame, !.c2 = now,
                                         !.others = { u \in Tasks : tasks[u].pc = "suspended" } \ {t},
                                         !.out = out ] ]
           /\ vc' = IF inv.op = "convertToOnChain" THEN conv.offChainVC ELSE vc
    /\ UNCHANGED <<x, y, cx, cy, now, issued, onChainVC, result, sig, auth>>

\* The caller keeps the first credential an issuance returned; every later
\* invocation is handed this object.
Share(t) ==
    /\ vc = Undefined
    /\ tasks[t].pc = "done" /\ tasks[t].inv.op = "issueOffChainCredential" /\ tasks[t].out.ok
    /\ vc' = tasks[t].out.v
    /\ tasks' = [tasks EXCEPT ![t] = NoTask]
    /\ UNCHANGED <<x, y, cx, cy, now, issued, onChainVC, result, sig, auth>>

\* Time passes while invocations are suspended.
Advance ==
    /\ now < MaxTime
    /\ now' = now + 1
    /\ UNCHANGED <<x, y, cx, cy, vc, issued, onChainVC, result, sig, tasks, auth>>

NextConcurrent ==
    \/ \E t \in Tasks, inv \in Invocations : Start(t, inv)
    \/ \E t \in Tasks : Resume(t)
    \/ \E t \in Tasks : Share(t)
    \/ Advance

ConcurrentSpec == Init /\ [][NextConcurrent]_vars

(***************************************************************************)
(* Access tokens and challenge-response authentication of OffChainService  *)
(***************************************************************************)

\* Validity periods asked of generateAccessToken, in ticks
Validities == {-1, 0, 1}

\* Random values drawn by createChallenge and generateAccessToken
Randoms == {1, 2}

\* What an attacker makes of a token: a later expiry, an expiry that is no
\* number, another random part, and the bare prefix
Alterations(token) ==
    LET parts == split(token, "_")
    IN  { Join(<<parts[1], JSONstringify(Num(parseInt(parts[2]).v + 2)), parts[3]>>, <<"_">>),
          Join(<<parts[1], <<"x">>, parts[3]>>, <<"_">>),
          Join(<<parts[1], parts[2], hexlify(9)>>, <<"_">>),
          parts[1] }

\* Challenge strings a verifier may send that createChallenge did not make:
\* the canonical text of a credential document, and the text of a token
ChosenChallenges ==
    { canonicalize(UnsignedDoc),
      T_access \o <<"_">> \o NatText(MaxTime + 1) \o <<"_">> \o hexlify(1) }

\* offChainService.generateAccessToken(privateKey, validitySeconds)
GenerateAccessToken(i, validitySeconds, r) ==
    /\ auth.flow = "none"
    /\ LET out == generateAccessToken(PrivateKeyOf(i), validitySeconds, now, r)
       IN  auth' = [ auth EXCEPT !.flow = "token", !.signer = i, !.token = out.v.token,
                                 !.signature = out.v.signature, !.expiresAt = out.v.expiresAt ]
    /\ UNCHANGED <<x, y, cx, cy, now, vc, issued, onChainVC, result, sig, tasks>>

\* The token text is changed after signing; the signature is kept.
AlterToken ==
    /\ auth.flow = "token" /\ ~auth.altered
    /\ \E token \in Alterations(auth.token) :
          auth' = [auth EXCEPT !.token = token, !.altered = TRUE, !.check = NoCheck]
    /\ UNCHANGED <<x, y, cx, cy, now, vc, issued, onChainVC, result, sig, tasks>>

\* offChainService.verifyAccessToken(token, signature, publicKey)
VerifyAccessToken(publicKey) ==
    /\ auth.flow = "token"
    /\ auth' = [ auth EXCEPT !.check =
                    [ op |-> "verifyAccessToken", publicKey |-> publicKey, clock |-> now,
                      replay |-> FALSE,
                      out |-> verifyAccessToken(auth.token, auth.signature, publicKey, now) ] ]
    /\ UNCHANGED <<x, y, cx, cy, now, vc, issued, onChainVC, result, sig, tasks>>

\* The verifier sends a challenge: one of createChallenge, or one it chose.
\* A response made for an earlier challenge stays with the one who heard it.
PoseChallenge(challenge) ==
    /\ auth.flow \in {"none", "challenge"}
    /\ challenge # auth.challenge
    /\ auth.flow = "challenge" => auth.response # Garbage
    /\ auth' = [auth EXCEPT !.flow = "challenge", !.challenge = challenge, !.check = NoCheck]
    /\ UNCHANGED <<x, y, cx, cy, now, vc, issued, onChainVC, result, sig, tasks>>

\* The key holder answers: cryptoService.sign(cryptoService.hash(challenge),
\* privateKey, { ethereumPrefix: false })
Respond(i) ==
    /\ auth.flow = "challenge" /\ auth.response = Garbage
    /\ auth' = [ auth EXCEPT !.signer = i,
                              !.response = sign(hash(auth.challenge), PrivateKeyOf(i), FALSE).v ]
    /\ UNCHANGED <<x, y, cx, cy, now, vc, issued, onChainVC, result, sig, tasks>>

\* offChainService.verifyChallengeResponse(challenge, response, publicKey);
\* `replay` tells that this response had been accepted before.
VerifyChallengeResponse(publicKey) ==
    /\ auth.flow = "challenge" /\ auth.response # Garbage
    /\ LET out == verifyChallengeResponse(auth.challenge, auth.response, publicKey)
       IN  auth' = [ auth EXCEPT
                       !.used = IF out THEN auth.used \cup {auth.response} ELSE auth.used,
                       !.check = [ op |-> "verifyChallengeResponse", publicKey |-> publicKey,
                                   clock |-> now, replay |-> auth.response \in auth.used,
                                   out |-> out ] ]
    /\ UNCHANGED <<x, y, cx, cy, now, vc, issued, onChainVC, result, sig, tasks>>

\* The response is presented as the proof of a credential:
\* verifier.verifyOffChainCredential({ ...document, proof }, publicKey)
PresentAsProof(publicKey) ==
    /\ auth.flow = "challenge" /\ auth.response # Garbage
    /\ auth' = [ auth EXCEPT !.check =
                    [ op |-> "verifyOffChainCredential", publicKey |-> publicKey, clock |-> now,
                      replay |-> FALSE,
                      out |-> verifyOffChainCredential(WithProofValue(UnsignedDoc, auth.response),
                                                       publicKey, DefaultVerifyOptions, now).verified ] ]
    /\ UNCHANGED <<x, y, cx, cy, now, vc, issued, onChainVC, result, sig, tasks>>

\* The response is presented as the signature of an access token whose text
\* is the challenge: offChainService.verifyAccessToken(token, response, publicKey)
PresentAsToken(publicKey) ==
    /\ auth.flow = "challenge" /\ auth.response # Garbage
    /\ auth' = [ auth EXCEPT !.check =
                    [ op |-> "verifyAccessToken", publicKey |-> publicKey, clock |-> now,
                      replay |-> FALSE,
                      out |-> verifyAccessToken(auth.challenge, auth.response, publicKey, now) ] ]
    /\ UNCHANGED <<x, y, cx, cy, now, vc, issued, onChainVC, result, sig, tasks>>

NextAuth ==
    \/ \E i \in Identities, validitySeconds \in Validities, r \in Randoms :
          GenerateAccessToken(i, validitySeconds, r)
    \/ AlterToken
    \/ \E i \in Identities : VerifyAccessToken(PublicKeyOf(i))
    \/ \E r \in Randoms : PoseChallenge(createChallenge(r))
    \/ \E challenge \in ChosenChallenges : PoseChallenge(challenge)
    \/ \E i \in Identities : Respond(i)
    \/ \E i \in Identities : VerifyChallengeResponse(PublicKeyOf(i))
    \/ \E i \in Identities : PresentAsProof(PublicKeyOf(i))
    \/ \E i \in Identities : PresentAsToken(PublicKeyOf(i))
    \/ Advance

AuthSpec == Init /\ [][NextAuth]_vars

(***************************************************************************)
(* What the properties speak about                                         *)
(***************************************************************************)

VerifierReturned == result.call = "verifyOffChainCredential"
IssuedOffChain   == issued.mode = "off" /\ issued.out.ok
IssuedOnChain    == issued.mode = "on" /\ issued.out.ok
Untampered       == issued.tampering.kind = "none" /\ ~issued.resigned
Signer           == issued.privateKey.v.owner

\* The reference time of the last verification: options.currentTime, default now
RefTime == IF result.options.currentTime.t = "date" THEN result.options.currentTime.v ELSE result.clock

\* The validity window fixed at issuance: [clock, clock + validityDays]
RefTimeInIssuedWindow ==
    /\ RefTime >= issued.clock
    /\ issued.options.validityDays.t = "number" /\ issued.options.validityDays.v # 0
          => RefTime <= issued.clock + issued.options.validityDays.v

(***************************************************************************)
(* C1                                                                      *)
(***************************************************************************)

C2_TamperRejected ==
    (VerifierReturned /\ IssuedOffChain
        /\ issued.tampering.kind = "claims" /\ ~issued.resigned
        /\ result.publicKey = PublicKeyOf(Signer))
    => (~result.out.verified /\ result.out.error = "Invalid signature")

(***************************************************************************)
(* C3                                                                      *)
(***************************************************************************)

\* Key material matches a signing key in a mode when it is that identity's
\* public key (Raw mode) or that identity's address (Prefixed mode).
MatchesSigner(keyMaterial, prefixed) ==
    /\ keyMaterial.t = (IF prefixed THEN "addr" ELSE "pub")
    /\ keyMaterial.v.owner = sig.privateKey.v.owner

\* C3: a signature verified, for the data it was made for, against key
\* material other than the one matching the signing key is rejected, in Raw
\* mode (another public key) and in Prefixed mode (another address); a
\* credential carrying the raw signature as its proof is rejected by
\* verifyOffChainCredential with that key material.
C3_WrongKeyRejected ==
    (sig.op = "verify" /\ ~MatchesSigner(sig.expected, sig.prefixV))
    => /\ ~sig.valid
       /\ (sig.data = createCanonicalHash(UnsignedDoc) /\ ~sig.prefix /\ ~sig.prefixV)
             => ~verifyOffChainCredential(WithProofValue(UnsignedDoc, sig.signed.v), sig.expected,
                                          VerifyOptions(Undefined, Undefined, Undefined), 1).verified

\* A raw signature over a credential hash was checked against the public key
\* of another identity and rejected, in the mode it was made in.
C3_Witness ==
    /\ sig.op = "verify" /\ ~sig.prefix /\ ~sig.prefixV
    /\ sig.data = createCanonicalHash(UnsignedDoc)
    /\ sig.expected.t = "pub" /\ sig.expected.v.owner \in Identities
    /\ sig.expected.v.owner # sig.privateKey.v.owner
    /\ ~sig.valid

(***************************************************************************)
(* C4                                                                      *)
(***************************************************************************)

\* C4: for the same digest and the same identity, a Raw signature fails
\* Prefixed verification against the identity's address, and a Prefixed
\* signature fails Raw verification against the identity's public key.
C4_ModeExclusive ==
    (sig.op = "verify" /\ sig.prefix # sig.prefixV /\ MatchesSigner(sig.expected, sig.prefixV))
    => ~sig.valid

\* A signature made in one mode was checked in the other mode against the
\* signer's own key material.
C4_Witness ==
    /\ sig.op = "verify" /\ sig.prefix /\ ~sig.prefixV
    /\ sig.expected = PublicKeyOf(sig.privateKey.v.owner)
    /\ ~sig.valid

(***************************************************************************)
(* C5                                                                      *)
(***************************************************************************)

\* C5: verifyOffChainCredential never throws; whenever it does not verify,
\* the result carries verified = false and a non-empty error.
C5_NeverThrows ==
    VerifierReturned
    => /\ ~result.out.raised
       /\ ~result.out.verified => result.out.error # ""

\* A null credential was verified and answered with a failure result.
C5_Witness ==
    /\ VerifierReturned /\ vc = Null
    /\ ~result.out.raised /\ ~result.out.verified
    /\ result.out.error = "Verification failed: TypeError"

(***************************************************************************)
(* C6                                                                      *)
(***************************************************************************)

Converted == onChainVC.call = "convertToOnChain" /\ onChainVC.out.ok

\* C6: the credential and its conversion have the same credential hash,
\* verifyHashConsistency answers true, and for an unchanged issued
\* credential this is the hash that was signed at issuance.
C6_HashInvariance ==
    Converted
    => LET offChainHash == getCredentialHash(vc)
           onChainHash  == getCredentialHash(onChainVC.out.v)
       IN  /\ offChainHash.ok
           /\ onChainHash = offChainHash
           /\ verifyHashConsistency(vc, onChainVC.out.v) = Return(TRUE)
           /\ (issued.mode \in {"off", "on"} /\ Untampered)
                 => onChainHash = Return(issued.hash)

\* An unchanged off-chain credential was converted.
C6_Witness ==
    /\ Converted /\ IssuedOffChain /\ Untampered
    /\ Get(onChainVC.out.v, K_proof) # Get(vc, K_proof)
    /\ getCredentialHash(onChainVC.out.v) = Return(issued.hash)

(***************************************************************************)
(* C7                                                                      *)
(***************************************************************************)

\* C7: two values that differ only in the insertion order of keys, at any
\* depth, and in keys whose value is absent have the same canonical text
\* and the same canonical hash.
C7_OrderIndependent ==
    cx # << >> => (cx = cy /\ createCanonicalHash(x) = createCanonicalHash(y))

\* Keys were rearranged two levels below the top, the top level left as it
\* was, and both values canonicalized.
C7_Witness ==
    /\ cx # << >> /\ x # y
    /\ IsObj(x) /\ KeysOf(x) = KeysOf(y)
    /\ \E path \in Paths :
          /\ Len(path) = 2
          /\ IsObj(At(x, path)) /\ IsObj(At(y, path))
          /\ KeysOf(At(x, path)) # KeysOf(At(y, path))

(***************************************************************************)
(* The stages of a verification, each taken on its own                     *)
(***************************************************************************)

\* The credential handed to the last verification is vc: no action changes
\* vc once the verifier has returned.
NoDocument == IsNullish(vc)

NoProof == ~NoDocument /\ ~Truthy(extractProof(vc).v)

SignatureChecks ==
    /\ ~NoDocument /\ ~NoProof
    /\ verifySignature(createCanonicalHash(Without(vc, K_proof)),
                       Get(extractProof(vc).v, K_proofValue), result.publicKey)

\* The reference time precedes validFrom, follows validUntil
RefPrecedesValidFrom ==
    /\ ~NoDocument /\ Truthy(Get(vc, K_validFrom))
    /\ NewDate(Get(vc, K_validFrom)).t = "date"
    /\ RefTime < NewDate(Get(vc, K_validFrom)).v

RefFollowsValidUntil ==
    /\ ~NoDocument /\ Truthy(Get(vc, K_validUntil))
    /\ NewDate(Get(vc, K_validUntil)).t = "date"
    /\ RefTime > NewDate(Get(vc, K_validUntil)).v

NotYetValid == result.options.checkNotBefore # Bool(FALSE) /\ RefPrecedesValidFrom
Expired     == result.options.checkExpiration # Bool(FALSE) /\ RefFollowsValidUntil

MissingFields ==
    /\ ~NoDocument
    /\ \E key \in {K_context, K_type, K_issuer, K_credentialSubject} : ~Truthy(Get(vc, key))

\* type is neither a list nor a text: asking it for the base tag throws
TypeNotSearchable == ~NoDocument /\ ~MissingFields /\ ~typeIncludes(Get(vc, K_type)).ok

BaseTagMissing ==
    /\ ~NoDocument /\ ~MissingFields /\ ~TypeNotSearchable
    /\ ~typeIncludes(Get(vc, K_type)).v

\* What the specification calls structurally invalid
StructurallyInvalid == NoDocument \/ NoProof \/ MissingFields \/ TypeNotSearchable \/ BaseTagMissing

StructuralErrors ==
    { "Verification failed: TypeError", "No proof found in credential",
      "Credential missing required fields",
      "Credential type must include \"VerifiableCredential\"" }

(***************************************************************************)
(* C8                                                                      *)
(***************************************************************************)

\* The type tag of the first proof of vc
ProofTag == Get(extractProof(vc).v, K_type)

\* C8 as stated: the verifier chooses the check by the type tag of the
\* proof, so an unchanged credential issued by issueOnChainCredential
\* (Prefixed-mode tag), verified against the signer's address at a reference
\* time inside its validity window, yields verified = true.
C8_DispatchByProofType ==
    (VerifierReturned /\ IssuedOnChain /\ Untampered
        /\ ProofTag = Str(T_EcdsaSecp256k1Signature2019)
        /\ result.publicKey = AddressOf(Signer)
        /\ RefTimeInIssuedWindow)
    => result.out.verified

(***************************************************************************)
(* C9                                                                      *)
(***************************************************************************)

\* C9 as stated: a structurally invalid credential is reported as such,
\* whatever its signature and its dates; an invalid signature on a
\* structurally valid credential is reported before any temporal failure.
C9_StructuralFirst ==
    VerifierReturned
    => /\ StructurallyInvalid => result.out.error \in StructuralErrors
       /\ (~StructurallyInvalid /\ ~SignatureChecks) => result.out.error = "Invalid signature"

\* C9 amended: the verifier reports the earliest failure in the order
\* document present, proof present, signature, not-before, expiry, required
\* fields, base type tag, and verifies when no stage fails.
C9_CodeOrder ==
    VerifierReturned
    => /\ result.out.error =
             ( IF NoDocument THEN "Verification failed: TypeError"
               ELSE IF NoProof THEN "No proof found in credential"
               ELSE IF ~SignatureChecks THEN "Invalid signature"
               ELSE IF NotYetValid THEN "Credential not yet valid"
               ELSE IF Expired THEN "Credential expired"
               ELSE IF MissingFields THEN "Credential missing required fields"
               ELSE IF TypeNotSearchable THEN "Verification failed: TypeError"
               ELSE IF BaseTagMissing THEN "Credential type must include \"VerifiableCredential\""
               ELSE "" )
       /\ result.out.verified <=> result.out.error = ""

\* A credential whose type list was replaced and that was signed again was
\* verified before its validFrom: the signature holds, the base type tag is
\* missing, and the error is the temporal one.
C9_Witness ==
    /\ VerifierReturned /\ IssuedOffChain /\ issued.resigned
    /\ SignatureChecks /\ BaseTagMissing /\ NotYetValid
    /\ result.out.error = "Credential not yet valid"

(***************************************************************************)
(* C10                                                                     *)
(***************************************************************************)

\* Both temporal checks are requested: neither option is false.
TemporalChecking ==
    result.options.checkNotBefore # Bool(FALSE) /\ result.options.checkExpiration # Bool(FALSE)

\* C10: with temporal checking enabled, a verification succeeds only if the
\* reference time neither precedes validFrom nor follows validUntil; once
\* the signature stage has passed, a reference time before validFrom yields
\* verified = false with the not-yet-valid error, and one after validUntil
\* yields verified = false with the expired error.
C10_TemporalCheck ==
    (VerifierReturned /\ TemporalChecking)
    => /\ result.out.verified => (~RefPrecedesValidFrom /\ ~RefFollowsValidUntil)
       /\ (SignatureChecks /\ RefPrecedesValidFrom)
             => (~result.out.verified /\ result.out.error = "Credential not yet valid")
       /\ (SignatureChecks /\ ~RefPrecedesValidFrom /\ RefFollowsValidUntil)
             => (~result.out.verified /\ result.out.error = "Credential expired")

\* An unchanged credential with a validity period of one day was verified,
\* with the options omitted, after the day had passed: it is expired.
C10_Witness ==
    /\ VerifierReturned /\ IssuedOffChain /\ Untampered
    /\ result.options = VerifyOptions(Undefined, Undefined, Undefined)
    /\ issued.options.validityDays = Num(1)
    /\ result.clock > issued.clock + 1
    /\ SignatureChecks
    /\ ~result.out.verified /\ result.out.error = "Credential expired"

(***************************************************************************)
(* C11                                                                     *)
(***************************************************************************)

\* vc exposes a field: the field is there with a value that is not empty
Exposes(key) == ~NoDocument /\ Truthy(Get(vc, key))

\* type is a list and the base type tag is one of its elements
TypeListHasBaseTag ==
    /\ ~NoDocument /\ IsArr(Get(vc, K_type))
    /\ \E i \in 1..Len(Get(vc, K_type).v) : Get(vc, K_type).v[i] = Str(T_VerifiableCredential)

\* type is a text and the base type tag occurs in it
TypeTextHasBaseTag ==
    /\ ~NoDocument /\ Get(vc, K_type).t = "string"
    /\ StrIncludes(Get(vc, K_type).v, T_VerifiableCredential)

ExposesAll ==
    /\ ~NoDocument /\ ~NoProof
    /\ \A key \in {K_context, K_type, K_issuer, K_credentialSubject} : Exposes(key)

FrameKeys ==
    { K_context, K_type, K_issuer, K_validFrom, K_validUntil, K_credentialSubject, K_id,
      K_credentialStatus, K_credentialSchema, K_evidence, K_termsOfUse }

\* C12: a step in which convertToOnChain returns a credential leaves the
\* input credential as it was, and the returned credential has, apart from
\* proof, the same fields with the same values in the same order.
C12_ConversionFrame ==
    [][ (onChainVC.call = "none" /\ onChainVC'.call = "convertToOnChain" /\ onChainVC'.out.ok)
        => /\ vc' = vc
           /\ Without(onChainVC'.out.v, K_proof) = Without(vc, K_proof)
           /\ \A key \in FrameKeys : Get(onChainVC'.out.v, key) = Get(vc, key) ]_vars

\* A credential issued with an id, further types and a validity period was
\* converted: the id and validUntil are in the result, the proof is new.
C12_Witness ==
    /\ Converted /\ IssuedOffChain /\ Untampered
    /\ Truthy(issued.options.credentialId) /\ Truthy(issued.options.validityDays)
    /\ Get(onChainVC.out.v, K_id) = issued.options.credentialId
    /\ Truthy(Get(onChainVC.out.v, K_validUntil))
    /\ Get(onChainVC.out.v, K_proof) # Get(vc, K_proof)

(***************************************************************************)
(* C13                                                                     *)
(***************************************************************************)

\* The proof of the converted credential, and the type tag of its input's
InputProofTag == IF NoDocument \/ NoProof THEN Undefined ELSE ProofTag
OutputProof   == Get(onChainVC.out.v, K_proof)

\* The Prefixed-mode signature of the hash of vc (its proof left out) by the
\* key the conversion was given
PrefixedSignatureOfVC ==
    [ t |-> "sig",
      v |-> [ digest |-> hashMessage(keccak256(canonicalize(Without(vc, K_proof)))),
              signer |-> onChainVC.privateKey.v.owner ] ]

\* C13 as stated: the conversion signs the unchanged hash in the mode other
\* than the one of the input, so the type tag of the new proof differs from
\* the type tag of the input's proof.
C13_OtherMode ==
    Converted
    => /\ Get(OutputProof, K_proofValue) = PrefixedSignatureOfVC
       /\ Get(OutputProof, K_type) # InputProofTag

\* C13 amended: whatever the mode of the input, the conversion signs the
\* unchanged hash in Prefixed mode, and the new proof carries the
\* Prefixed-mode tag and the address it was given as verificationMethod;
\* the tag differs from the input's exactly when the input's is not the
\* Prefixed-mode tag.
C13_AlwaysPrefixed ==
    Converted
    => /\ Get(OutputProof, K_proofValue) = PrefixedSignatureOfVC
       /\ Get(OutputProof, K_type) = Str(T_EcdsaSecp256k1Signature2019)
       /\ Get(OutputProof, K_verificationMethod) = onChainVC.ethereumAddress
       /\ (Get(OutputProof, K_type) # InputProofTag)
             <=> (InputProofTag # Str(T_EcdsaSecp256k1Signature2019))

\* An off-chain credential (Raw-mode tag) was converted with its own key.
C13_Witness ==
    /\ Converted /\ IssuedOffChain /\ Untampered
    /\ onChainVC.privateKey = issued.privateKey
    /\ InputProofTag = Str(T_EcdsaSecp256k1RecoverySignature2020)
    /\ Get(OutputProof, K_type) = Str(T_EcdsaSecp256k1Signature2019)
    /\ Get(OutputProof, K_proofValue) # Get(Get(vc, K_proof), K_proofValue)

(***************************************************************************)
(* C14                                                                     *)
(***************************************************************************)

\* verifyOnChainSignature was called on the credential convertToOnChain returned
ConvertedChecked == Converted /\ onChainVC.checked

\* C14: for a converted credential, verifyOnChainSignature answers true
\* when the expected address is the address of the private key the
\* conversion signed with, in either letter case, and false when it is the
\* address of another identity.
C14_OnChainSignature ==
    ConvertedChecked
    => onChainVC.valid
          = Return(onChainVC.expectedAddress.v.owner = onChainVC.privateKey.v.owner)

\* Both answers were given for a converted off-chain credential.
C14_Witness ==
    /\ ConvertedChecked /\ IssuedOffChain
    /\ onChainVC.expectedAddress = AddressOf(onChainVC.privateKey.v.owner)
    /\ onChainVC.valid = Return(TRUE)
    /\ verifyOnChainSignature(onChainVC.out.v,
                              AddressOf(CHOOSE j \in Identities : j # onChainVC.privateKey.v.owner))
          = Return(FALSE)

(***************************************************************************)
(* C15                                                                     *)
(***************************************************************************)

\* The option naming the key of the mode was not given to the issuance.
KeyOptionMissing ==
    \/ issued.mode = "off" /\ ~Truthy(issued.options.publicKey)
    \/ issued.mode = "on" /\ ~Truthy(issued.options.ethereumAddress)

C16_ConvertMissingAddress ==
    (onChainVC.call = "convertToOnChain" /\ ~Truthy(onChainVC.ethereumAddress))
    => ~onChainVC.out.ok

(***************************************************************************)
(* C17                                                                     *)
(***************************************************************************)

\* An issuance got past its option check: it reached the signing call.
ReachedSigning == issued.mode \in {"off", "on"} /\ ~KeyOptionMissing

\* The proof value of a credential is a signature made by the key `key`
SignedBy(cred, key) ==
    /\ IsPrivateKey(key) /\ IsObj(cred) /\ IsObj(Get(cred, K_proof))
    /\ IsSignature(Get(Get(cred, K_proof), K_proofValue))
    /\ Get(Get(cred, K_proof), K_proofValue).v.signer = key.v.owner

\* C17: when signing fails because the private key is malformed, an
\* issuance and a conversion end in the signing error and yield no
\* credential; a credential they return carries a signature made by the
\* key they were given.
C17_SigningErrorPropagates ==
    /\ (ReachedSigning /\ ~IsPrivateKey(issued.privateKey))
          => (~issued.out.ok /\ issued.out.v = "ECDSA signing failed" /\ vc = Undefined)
    /\ (ReachedSigning /\ issued.out.ok) => SignedBy(issued.out.v, issued.privateKey)
    /\ (onChainVC.call = "convertToOnChain" /\ ~IsPrivateKey(onChainVC.privateKey))
          => /\ ~onChainVC.out.ok
             /\ ~NoDocument => onChainVC.out.v = "ECDSA signing failed"
    /\ Converted => SignedBy(onChainVC.out.v, onChainVC.privateKey)

\* An on-chain issuance with its address option and a malformed private
\* key ended in the signing error.
C17_Witness ==
    /\ issued.mode = "on" /\ Truthy(issued.options.ethereumAddress)
    /\ ~IsPrivateKey(issued.privateKey)
    /\ issued.calls = <<"createCredentialDocument", "createCanonicalHash", "signForBlockchain">>
    /\ ~issued.out.ok /\ issued.out.v = "ECDSA signing failed" /\ vc = Undefined

(***************************************************************************)
(* C18                                                                     *)
(***************************************************************************)

\* The proof of the credential as the issuance returned it
IssuedProof == Get(issued.out.v, K_proof)

\* C18 as stated: the proof attached at issuance carries the type tag of
\* the mode, the key identifier given in the options as verificationMethod
\* (the publicKey option in Raw mode, the ethereumAddress option in
\* Prefixed mode) and a signature as proofValue.
C18_ProofFields ==
    (issued.mode \in {"off", "on"} /\ issued.out.ok)
    => /\ Get(IssuedProof, K_type)
             = Str(IF issued.mode = "off" THEN T_EcdsaSecp256k1RecoverySignature2020
                                         ELSE T_EcdsaSecp256k1Signature2019)
       /\ Get(IssuedProof, K_verificationMethod)
             = (IF issued.mode = "off" THEN issued.options.publicKey
                                       ELSE issued.options.ethereumAddress)
       /\ IsSignature(Get(IssuedProof, K_proofValue))

(***************************************************************************)
(* C19                                                                     *)
(***************************************************************************)

\* The record o with the value of its i-th property replaced
WithValueAt(o, i, val) == Obj([o.v EXCEPT ![i] = [k |-> o.v[i].k, v |-> val]])

\* The records of x, by position, and their properties whose value is null
NullProperties ==
    { pi \in Paths \X (1..4) :
         /\ IsObj(At(x, pi[1])) /\ pi[2] <= Len(At(x, pi[1]).v)
         /\ At(x, pi[1]).v[pi[2]].v = Null }

\* The text "key":null
NullMember(key) == <<"\"">> \o key \o <<"\"", ":", "n", "u", "l", "l">>

\* C19: for every property of x whose value is null, at any depth, the
\* canonical text of x holds the key with the value null and differs from
\* the canonical text of x with that property absent (set to undefined or
\* removed); setting the property to undefined and removing it give the
\* same text.
C19_NullRetained ==
    cx # << >>
    => \A pi \in NullProperties :
          LET o       == At(x, pi[1])
              absent  == ReplaceAt(x, pi[1], WithValueAt(o, pi[2], Undefined))
              removed == ReplaceAt(x, pi[1], Without(o, o.v[pi[2]].k))
          IN  /\ StrIncludes(cx, NullMember(o.v[pi[2]].k))
              /\ canonicalize(absent) # cx
              /\ canonicalize(removed) = canonicalize(absent)
              /\ ~StrIncludes(canonicalize(absent), NullMember(o.v[pi[2]].k))

\* A value with a null property two levels down was canonicalized.
C19_Witness ==
    /\ cx # << >>
    /\ \E pi \in NullProperties : Len(pi[1]) = 2
    /\ StrIncludes(cx, NullMember(K_c))

(***************************************************************************)
(* C20                                                                     *)
(***************************************************************************)

\* null, a boolean, a number, a string, a list of such values, or a record
\* of such values in which a key may also be absent
RECURSIVE JSONLike(_)
JSONLike(val) ==
    CASE val.t \in {"null", "boolean", "number", "string"} -> TRUE
      [] val.t = "array"  -> \A i \in 1..Len(val.v) : JSONLike(val.v[i])
      [] val.t = "object" -> \A i \in 1..Len(val.v) : val.v[i].v = Undefined \/ JSONLike(val.v[i].v)
      [] OTHER -> FALSE

\* C20 as stated: the canonical text of a JSON-like value parses, and the
\* parsed value has the same canonical text.
C20_ReparseIdempotent ==
    (cx # << >> /\ JSONLike(x))
    => /\ JSONparse(cx).ok
       /\ canonicalize(JSONparse(cx).v) = cx

(***************************************************************************)
(* C21                                                                     *)
(***************************************************************************)

\* C21 as stated: an issued credential has validFrom equal to the clock of
\* its issuance; when the options give a validity period it has validUntil
\* equal to validFrom plus that period, and validUntil is absent only when
\* the options give none.
C21_ValidityPeriod ==
    (IssuedOffChain \/ IssuedOnChain)
    => LET doc  == issued.out.v
           days == issued.options.validityDays
       IN  /\ Get(doc, K_validFrom) = Str(toISOString(Date(issued.clock)))
           /\ days # Undefined
                 => Get(doc, K_validUntil) = Str(toISOString(Date(issued.clock + days.v)))
           /\ ~HasKey(doc, K_validUntil) => days = Undefined

(***************************************************************************)
(* C22                                                                     *)
(***************************************************************************)

ProofIsList == IsArr(Get(vc, K_proof)) /\ Get(vc, K_proof).v # << >>

\* The credential at hand carrying the first element of its proof list alone
FirstProofAlone == Assign(vc, K_proof, Get(vc, K_proof).v[1])

\* C22: for a credential whose proof is a list, verifyOffChainCredential and
\* verifyOnChainSignature answer what they answer for the same credential
\* carrying the first element of the list as its only proof.
C22_FirstProofOnly ==
    ProofIsList
    => /\ VerifierReturned
             => result.out = verifyOffChainCredential(FirstProofAlone, result.publicKey,
                                                      result.options, result.clock)
       /\ onChainVC.checked
             => LET alone == verifyOnChainSignature(FirstProofAlone, onChainVC.expectedAddress)
                IN  onChainVC.valid.ok = alone.ok /\ onChainVC.valid.v = alone.v

\* A credential whose proof list holds the issuer's proof first and another
\* identity's signature second was verified with the issuer's key, and was
\* accepted.
C22_Witness ==
    /\ ProofIsList /\ Len(Get(vc, K_proof).v) = 2
    /\ IssuedOffChain /\ VerifierReturned
    /\ Get(Get(vc, K_proof).v[2], K_proofValue).v.signer # Signer
    /\ result.publicKey = PublicKeyOf(Signer)
    /\ result.out.verified

(***************************************************************************)
(* C23                                                                     *)
(***************************************************************************)

\* What a settled invocation returns when nothing else runs between its call
\* and its return, for the clock values it read: validFrom at its call and
\* proof.created at its return for an issuance, the reference time at its
\* return for a verification.
Alone(task) ==
    CASE task.inv.op = "issueOffChainCredential" ->
            LET r == issueOffChainCredential(IssuerObject, Subject, task.inv.privateKey,
                                             IssueOptionsOf(task.inv), task.c1)
            IN  IF r.ok /\ task.c2 # 0
                THEN Return(SetPath(r.v, <<K_proof, K_created>>, Str(toISOString(Date(task.c2)))))
                ELSE r
      [] task.inv.op = "verifyOffChainCredential" ->
            Return(verifyOffChainCredential(vc, task.inv.key, DefaultVerifyOptions, task.c2))
      [] task.inv.op = "convertToOnChain" ->
            convertToOnChain(vc, task.inv.privateKey, task.inv.key, task.c2)
      [] task.inv.op = "canonicalize" ->
            Return(canonicalize(vc))

\* C23: every settled invocation has returned (or thrown) what it returns
\* when run alone, whatever ran between its call and its return.
C23_NoInterference ==
    \A t \in Tasks :
        tasks[t].pc = "done"
        => /\ tasks[t].out.ok = Alone(tasks[t]).ok
           /\ tasks[t].out.v = Alone(tasks[t]).v

\* A verification was accepted that resumed while a conversion of the same
\* credential object was suspended, and the conversion has returned too.
C23_Witness ==
    \E t, u \in Tasks :
        /\ tasks[t].pc = "done" /\ tasks[t].inv.op = "verifyOffChainCredential"
        /\ tasks[t].out.v.verified /\ u \in tasks[t].others
        /\ tasks[u].pc = "done" /\ tasks[u].inv.op = "convertToOnChain" /\ tasks[u].out.ok

(***************************************************************************)
(* C24                                                                     *)
(***************************************************************************)

\* Some property name or some value of `val`, at any depth, is the key or
\* a text in which the key occurs.
RECURSIVE Mentions(_, _)
Mentions(val, key) ==
    CASE IsObj(val) -> \E i \in 1..Len(val.v) :
                           StrIncludes(val.v[i].k, HexText(key)) \/ Mentions(val.v[i].v, key)
      [] IsArr(val) -> \E i \in 1..Len(val.v) : Mentions(val.v[i], key)
      [] val.t = "string" -> StrIncludes(val.v, HexText(key))
      [] OTHER -> val.t = "priv" /\ val.v.owner = key.v.owner

\* C24: no field of the document or the proof of a credential returned by
\* issueOffChainCredential, issueOnChainCredential or convertToOnChain holds
\* the private key the operation signed with.
C24_KeyNotSerialized ==
    /\ (IssuedOffChain \/ IssuedOnChain) => ~Mentions(issued.out.v, issued.privateKey)
    /\ (onChainVC.call = "convertToOnChain" /\ onChainVC.out.ok)
          => ~Mentions(onChainVC.out.v, onChainVC.privateKey)

\* A credential issued off-chain with one key has been converted with the
\* other; both operations returned a credential, and the converted one
\* names the address it was given.
C24_Witness ==
    /\ IssuedOffChain /\ onChainVC.call = "convertToOnChain" /\ onChainVC.out.ok
    /\ IsPrivateKey(onChainVC.privateKey) /\ onChainVC.privateKey # issued.privateKey
    /\ Get(Get(onChainVC.out.v, K_proof), K_verificationMethod) = onChainVC.ethereumAddress
    /\ Get(Get(issued.out.v, K_proof), K_proofValue) = SigningKey_sign(issued.hash, Signer)

(***************************************************************************)
(* C25                                                                     *)
(***************************************************************************)

TokenChecked == auth.flow = "token" /\ auth.check.op = "verifyAccessToken"

\* C25: verifyAccessToken of a token and signature made by
\* generateAccessToken, with the public key of the signing key, is true
\* exactly while the clock has not passed the expiry; of a token whose text
\* was altered after signing it is false.
C25_AccessToken ==
    TokenChecked
    => /\ (~auth.altered /\ auth.check.publicKey = PublicKeyOf(auth.signer))
             => (auth.check.out <=> auth.check.clock <= auth.expiresAt)
       /\ auth.altered => ~auth.check.out

\* A token was accepted at the tick of its expiry.
C25_Witness ==
    /\ TokenChecked /\ ~auth.altered
    /\ auth.check.publicKey = PublicKeyOf(auth.signer)
    /\ auth.check.clock = auth.expiresAt /\ auth.check.clock > 1
    /\ auth.check.out

(***************************************************************************)
(* C26                                                                     *)
(***************************************************************************)

\* C26 as stated: a response that verifyChallengeResponse has accepted once
\* is not accepted again, with a new challenge or with the same one.
C26_ReplayProtected ==
    (auth.check.op = "verifyChallengeResponse" /\ auth.check.replay) => ~auth.check.out

(***************************************************************************)
(* C30                                                                     *)
(***************************************************************************)

\* C30 as stated: the signature a key holder made in answer to a challenge
\* is accepted neither as the proof of a credential by
\* verifyOffChainCredential nor as the signature of an access token by
\* verifyAccessToken, whatever the challenge string was.
C30_BoundToPurpose ==
    (auth.flow = "challenge" /\ auth.check.op \in {"verifyOffChainCredential", "verifyAccessToken"})
    => ~auth.check.out

(***************************************************************************)
(* C27                                                                     *)
(***************************************************************************)

\* The keys of a record that have a value
PresentKeys(o) == { o.v[i].k : i \in { j \in 1..Len(o.v) : o.v[j].v # Undefined } }

\* The same document: records with the same present keys and the same
\* document under each, lists of the same documents in the same order, or
\* the same simple value.
RECURSIVE SameDocument(_, _)
SameDocument(a, b) ==
    CASE IsObj(a) /\ IsObj(b) ->
            /\ PresentKeys(a) = PresentKeys(b)
            /\ \A k \in PresentKeys(a) : SameDocument(Get(a, k), Get(b, k))
      [] IsArr(a) /\ IsArr(b) ->
            /\ Len(a.v) = Len(b.v)
            /\ \A i \in 1..Len(a.v) : SameDocument(a.v[i], b.v[i])
      [] OTHER -> a.t = b.t /\ a = b

\* Documents set against the canonicalized one: those of the harness, and
\* records that spell in one key, or in a key and a string, what another
\* record spells in two properties
Documents ==
    CanonValues
    \cup { Obj(<< P(K_a, Num(1)), P(K_b, Num(2)) >>),
           Obj(<< P(K_a1b, Num(2)) >>),
           Obj(<< P(K_a, Str(<<"1", "\"", ",", "\"", "b", "\"", ":", "\"", "2">>)) >>),
           Obj(<< P(K_a, Str(<<"1">>)), P(K_b, Str(<<"2">>)) >>),
           Obj(<< P(K_a, Arr(<<Num(1), Num(2)>>)) >>),
           Obj(<< P(K_a, Arr(<<Str(<<"1", ",", "2">>)>>)) >>),
           Obj(<< P(K_a, Null) >>), Obj(<< P(K_a, Str(<<"n", "u", "l", "l">>)) >>) }

\* C27 as stated: a JSON-like document that has the canonical text of
\* another is the same document.
C27_Injective ==
    (cx # << >> /\ JSONLike(x))
    => \A w \in Documents : (JSONLike(w) /\ canonicalize(w) = cx) => SameDocument(w, x)

(***************************************************************************)
(* C28                                                                     *)
(***************************************************************************)

\* C28 as stated: a verification that checks expiration and returns
\* verified = true returns details whose isExpired is false.
C28_ExpiryFlag ==
    (VerifierReturned /\ result.out.verified /\ NotFalse(result.options.checkExpiration))
    => ~result.out.details.isExpired

(***************************************************************************)
(* C29                                                                     *)
(***************************************************************************)

\* C29 as stated: the proof of a credential returned by convertToOnChain
\* names the address of the key that signed it, and verifyOnChainSignature
\* of the credential against that address is true.
C29_MethodIsSigner ==
    (onChainVC.call = "convertToOnChain" /\ onChainVC.out.ok)
    => LET method == Get(Get(onChainVC.out.v, K_proof), K_verificationMethod)
           valid  == verifyOnChainSignature(onChainVC.out.v, method)
       IN  /\ method.t = "addr" /\ method.v.owner = onChainVC.privateKey.v.owner
           /\ valid.ok /\ valid.v

====
